---- MODULE Spec2Model ----
(***************************************************************************)
(* Process supervisor of src-tauri/src/commands/server.rs: the registry    *)
(* ServerState.processes, the commands start_server, stop_server,          *)
(* get_server_status and send_server_command, and the per-process threads  *)
(* (stdin writer, exit monitor) that start_server creates.                 *)
(*                                                                         *)
(* Every section of code that runs under the registry lock is one atomic   *)
(* action; the code between two such sections is a separate action, so     *)
(* every interleaving of two commands and the threads is explored.         *)
(***************************************************************************)
EXTENDS Integers, Sequences, FiniteSets, TLC

\* ------------------------------------------------------------------ bounds
MaxProcs == 2          \* OS processes spawned in one behaviour
MaxCmds == 2           \* commands accepted by send_server_command in one behaviour
MaxPolls == 1          \* 200 ms sleeps of stop_server's wait loop that fit in its timeout
MaxChunks == 5         \* pieces of text a line given to parse_auth_event is made of

Ids == {"a", "b"}                \* instance ids
Shared == {"a"}                  \* the id on which concurrent commands compete
Callers == {"c1", "c2"}          \* concurrent invocations of commands
Procs == 1..MaxProcs             \* the n-th spawned OS process / its handle
NoProc == 0                      \* no handle: HashMap::get gives None
NL == "\n"
\* command texts: with no trailing newline, with one, with two
Cmds == {<<"x">>, <<"y", NL>>, <<"z", NL, NL>>}

VARIABLES
    processes,   \* ServerState.processes: id -> handle (NoProc: no entry)
    nprocs,      \* number of OS processes spawned so far
    procId,      \* handle -> ServerProcess.instance_id
    alive,       \* handle -> "none" | "running" | "exited" (the OS process)
    cpc,         \* caller -> position in the command it is executing
    cid,         \* caller -> instance_id argument of that command
    ch,          \* caller -> its local handle (start: process, stop: process_arc)
    log,         \* caller -> events emitted and signals sent so far by that command
    polls,       \* caller in stop_server's wait loop -> sleeps it has made (elapsed time)
    ret,         \* the value the last step returned to a caller (NoRet: it returned nothing)
    mpc,         \* handle -> exit monitor thread created for it
    mseen,       \* handle -> handle on which that monitor's try_wait set should_cleanup
    wpc,         \* handle -> stdin writer thread created for it
    queue,       \* handle -> contents of the mpsc channel stdin_tx/stdin_rx
    accepted,    \* handle -> commands for which tx.send returned Ok, in order
    written,     \* handle -> chunks written to the child's stdin, in order
    stoppedOf,   \* handle -> number of Stopped events emitted for it by stop/monitor
    exitOf,      \* handle -> number of server-exit events emitted for it
    startedSince, \* caller in stop_server, entry removed -> a start inserted the id since
    overlapped,  \* caller in start_server -> another call for the id was in progress
                 \*           at some time since this call began
    attended,    \* handle -> its insert replaced an entry, or since its start_server
                 \*           began another command for its id was in progress
    waitFaults,  \* whether Child::try_wait can return Err in this behaviour
    line,        \* text given to parse_auth_event
    parsed,      \* what parse_auth_event returned for it
    profile,     \* handle -> last_profile_name of its stdout loop
    out,         \* the last output line processed, by which loop, and the events it emitted
    opc,         \* handle -> stdout reader thread created for it
    epc,         \* handle -> stderr reader thread created for it
    rlock,       \* the thread that holds the mutex of the registry
    plock,       \* handle -> the thread that holds its mutex
    mlock,       \* the thread that holds the mutex of the MetricsState
    todo         \* caller iterating over the registry -> ids it has yet to visit

vars == <<processes, nprocs, procId, alive, cpc, cid, ch, log, polls, ret,
          mpc, mseen, wpc, queue, accepted, written, stoppedOf, exitOf, startedSince,
          overlapped, attended, waitFaults, line, parsed, profile, out, opc, epc,
          rlock, plock, mlock, todo>>

procVars == <<nprocs, procId, alive>>
callVars == <<cpc, cid, ch, log, polls, startedSince, overlapped>>
cmdVars == <<queue, accepted, written>>
monVars == <<mpc, mseen>>
textVars == <<line, parsed, profile, out>>
rdrVars == <<opc, epc>>
lockVars == <<rlock, plock, mlock, todo>>
evVars == <<stoppedOf, exitOf, attended, waitFaults, lockVars, textVars, rdrVars>>

\* ------------------------------------------------------------ result values
NoRes == [op |-> "none", id |-> "", ok |-> FALSE, info |-> "", pid |-> NoProc, at |-> NoProc]

StartResult(id, success, pid, error) ==
    [op |-> "start", id |-> id, ok |-> success, info |-> error, pid |-> pid, at |-> NoProc]

StopResult(id, success, error) ==
    [op |-> "stop", id |-> id, ok |-> success, info |-> error, pid |-> NoProc, at |-> NoProc]

ServerStatusInfo(id, status, pid, started_at) ==
    [op |-> "status", id |-> id, ok |-> TRUE, info |-> status, pid |-> pid, at |-> started_at]

SendResult(id, b) ==
    [op |-> "send", id |-> id, ok |-> b, info |-> "", pid |-> NoProc, at |-> NoProc]

\* Vec<ServerStatusInfo>; the order of a HashMap iteration is not specified
AllStatuses(list) ==
    [op |-> "statuses", id |-> "", ok |-> TRUE, info |-> list, pid |-> NoProc, at |-> NoProc]

\* caller c returns value r having emitted the events (and sent the signals) l
Returned(c, r, l) == [by |-> c, val |-> r, log |-> l]

NoRet == Returned("", NoRes, <<>>)

\* who holds a mutex: nobody, a command run by caller c, the exit monitor
\* created for handle m
Free == [kind |-> "free", c |-> "", m |-> NoProc]

Caller(c) == [kind |-> "caller", c |-> c, m |-> NoProc]

Monitor(m) == [kind |-> "monitor", c |-> "", m |-> m]

\* ------------------------------------------------------------------- Init
InitState ==
    /\ processes = [i \in Ids |-> NoProc]
    /\ nprocs = 0
    /\ procId = [p \in Procs |-> ""]
    /\ alive = [p \in Procs |-> "none"]
    /\ cpc = [c \in Callers |-> "idle"]
    /\ cid = [c \in Callers |-> ""]
    /\ ch = [c \in Callers |-> NoProc]
    /\ log = [c \in Callers |-> <<>>]
    /\ polls = [c \in Callers |-> 0]
    /\ ret = NoRet
    /\ mpc = [p \in Procs |-> "none"]
    /\ mseen = [p \in Procs |-> NoProc]
    /\ wpc = [p \in Procs |-> "none"]
    /\ queue = [p \in Procs |-> <<>>]
    /\ accepted = [p \in Procs |-> <<>>]
    /\ written = [p \in Procs |-> <<>>]
    /\ stoppedOf = [p \in Procs |-> 0]
    /\ exitOf = [p \in Procs |-> 0]
    /\ startedSince = [c \in Callers |-> FALSE]
    /\ overlapped = [c \in Callers |-> FALSE]
    /\ attended = [p \in Procs |-> FALSE]
    /\ opc = [p \in Procs |-> "none"]
    /\ epc = [p \in Procs |-> "none"]
    /\ rlock = Free
    /\ plock = [p \in Procs |-> Free]
    /\ mlock = Free
    /\ todo = [c \in Callers |-> {}]

\* Option::None
None == [some |-> FALSE]

Some(v) == [some |-> TRUE, val |-> v]

NotParsed == [done |-> FALSE]

NoOut == [of |-> NoProc, line |-> <<>>, events |-> <<>>]

NoText ==
    /\ line = <<>>
    /\ parsed = NotParsed
    /\ profile = [p \in Procs |-> None]
    /\ out = NoOut

Init == InitState /\ waitFaults = FALSE /\ NoText

FaultInit == InitState /\ waitFaults = TRUE /\ NoText

\* --------------------------------------------------------------- registry
ContainsKey(reg, id) == reg[id] # NoProc

Get(reg, id) == reg[id]

Insert(reg, id, p) == [reg EXCEPT ![id] = p]

Remove(reg, id) == [reg EXCEPT ![id] = NoProc]

\* An Arc<Mutex<ServerProcess>> is alive while the registry or a command's local
\* variable (process in start_server, process_arc in stop_server) refers to it.
HandleLive(p) ==
    \/ \E i \in Ids : processes[i] = p
    \/ \E c \in Callers : ch[c] = p

PidOf(p) == <<"pid", p>>

StartedAtOf(p) == <<"rfc3339", p>>

\* Child::try_wait on handle p; err is the OS refusing the wait.
WaitErrs == IF waitFaults THEN BOOLEAN ELSE {FALSE}

\* whether the command that delivers the graceful signal can fail
SignalErrs == IF waitFaults THEN BOOLEAN ELSE {FALSE}

TryWait(p, err) ==
    IF err THEN "err" ELSE IF alive[p] = "exited" THEN "exited" ELSE "running"

\* another command for id is between its first and its last step
Busy(c, id) == \E k \in Callers \ {c} : cpc[k] # "idle" /\ cid[k] = id

\* caller c begins a command for id that has more than one step
Overlap(c, id) ==
    [k \in Callers |->
        IF k = c THEN Busy(c, id)
        ELSE overlapped[k] \/ (cpc[k] = "s_spawn" /\ cid[k] = id)]

\* ----------------------------------------------------------- start_server
\* lines 121-139: the already-running check under the lock, then Starting.
StartAlreadyRunning_Unchecked(id) == FALSE

StartAlreadyRunning(id) == ContainsKey(processes, id)

StartCheckEvents_Omitted(running) == <<>>

StartCheckEvents_Always(running) == <<"Starting">>

\* lines 122-139: the early return emits nothing, otherwise Starting is emitted
\* before anything else is done.
StartCheckEvents(running) == IF running THEN <<>> ELSE <<"Starting">>

StartCheck(c, id) ==
    /\ cpc[c] = "idle"
    /\ IF StartAlreadyRunning(id)
       THEN /\ ret' = Returned(c, StartResult(id, FALSE, NoProc, "Server is already running"),
                               StartCheckEvents(TRUE))
            /\ UNCHANGED <<cpc, cid, log, overlapped>>
       ELSE /\ log' = [log EXCEPT ![c] = StartCheckEvents(FALSE)]
            /\ cid' = [cid EXCEPT ![c] = id]
            /\ cpc' = [cpc EXCEPT ![c] = "s_spawn"]
            /\ overlapped' = Overlap(c, id)
            /\ ret' = NoRet
    /\ UNCHANGED <<processes, procVars, ch, polls, startedSince, monVars, wpc, cmdVars, evVars>>

\* lines 147-237: the two file checks in order, then Command::spawn.
StartPrecondition_NoChecks(jar, assets, spawnOk) == ""

StartPrecondition_AssetsFirst(jar, assets, spawnOk) ==
    IF ~assets THEN "Assets.zip not found"
    ELSE IF ~jar THEN "Server JAR not found"
    ELSE IF ~spawnOk THEN "Failed to start server"
    ELSE ""

StartPrecondition_SpawnErrorIgnored(jar, assets, spawnOk) ==
    IF ~jar THEN "Server JAR not found"
    ELSE IF ~assets THEN "Assets.zip not found"
    ELSE ""

StartPrecondition(jar, assets, spawnOk) ==
    IF ~jar THEN "Server JAR not found"
    ELSE IF ~assets THEN "Assets.zip not found"
    ELSE IF ~spawnOk THEN "Failed to start server"
    ELSE ""

\* lines 141-271: file checks, spawn, and on success processes.insert under
\* the lock followed by Running. Nothing between the spawn and the insert
\* reads or writes shared state, so the two are one step.
\* jar, assets: whether the two files exist; spawnOk: whether Command::spawn
\* returns Ok.
StartSpawnWith(c, jar, assets, spawnOk) ==
    /\ cpc[c] = "s_spawn"
    /\   LET e == StartPrecondition(jar, assets, spawnOk)
             p == nprocs + 1
         IN
         IF e # ""
         THEN /\ ret' = Returned(c, StartResult(cid[c], FALSE, NoProc, e), Append(log[c], "Stopped"))
              /\ log' = [log EXCEPT ![c] = <<>>]
              /\ cpc' = [cpc EXCEPT ![c] = "idle"]
              /\ cid' = [cid EXCEPT ![c] = ""]
              /\ overlapped' = [overlapped EXCEPT ![c] = FALSE]
              /\ UNCHANGED <<processes, procVars, ch, startedSince, attended>>
         ELSE /\ nprocs < MaxProcs
              /\ nprocs' = p
              /\ procId' = [procId EXCEPT ![p] = cid[c]]
              /\ alive' = [alive EXCEPT ![p] = "running"]
              /\ ch' = [ch EXCEPT ![c] = p]
              /\ processes' = Insert(processes, cid[c], p)
              /\ startedSince' = [k \in Callers |->
                                    startedSince[k] \/ (cpc[k] = "t_done" /\ cid[k] = cid[c])]
              /\ attended' = [attended EXCEPT ![p] =
                                 ContainsKey(processes, cid[c]) \/ overlapped[c]]
              /\ overlapped' = [overlapped EXCEPT ![c] = FALSE]
              /\ log' = [log EXCEPT ![c] = Append(@, "Running")]
              /\ cpc' = [cpc EXCEPT ![c] = "s_threads"]
              /\ ret' = NoRet
              /\ UNCHANGED cid
    /\ UNCHANGED <<polls, monVars, wpc, cmdVars, stoppedOf, exitOf, waitFaults, lockVars, textVars, rdrVars>>

StartSpawn(c) ==
    \E jar \in BOOLEAN, assets \in BOOLEAN, spawnOk \in BOOLEAN :
        StartSpawnWith(c, jar, assets, spawnOk)

\* lines 273-462: the threads are created, the call returns success and its
\* local Arc (process) is dropped.
StartThreads(c) ==
    /\ cpc[c] = "s_threads"
    /\ wpc' = [wpc EXCEPT ![ch[c]] = "run"]
    /\ opc' = [opc EXCEPT ![ch[c]] = "run"]
    /\ epc' = [epc EXCEPT ![ch[c]] = "run"]
    /\ mpc' = [mpc EXCEPT ![ch[c]] = "sleep"]
    /\ ret' = Returned(c, StartResult(cid[c], TRUE, PidOf(ch[c]), ""), log[c])
    /\ log' = [log EXCEPT ![c] = <<>>]
    /\ cpc' = [cpc EXCEPT ![c] = "idle"]
    /\ ch' = [ch EXCEPT ![c] = NoProc]
    /\ cid' = [cid EXCEPT ![c] = ""]
    /\ UNCHANGED <<processes, procVars, polls, startedSince, overlapped, mseen, cmdVars,
                   stoppedOf, exitOf, attended, waitFaults, lockVars, textVars>>

\* The OS process ends (on its own, or as the effect of a signal).
ProcExit(p) ==
    /\ alive[p] = "running"
    /\ alive' = [alive EXCEPT ![p] = "exited"]
    /\ ret' = NoRet
    /\ UNCHANGED <<processes, nprocs, procId, callVars, monVars, wpc, cmdVars, evVars>>

\* ------------------------------------------------------------ stop_server
\* lines 488-494: Stopping is emitted only after the lookup found the id.
StopLookupEvents_BeforeLookup(found) == <<"Stopping", "TERM">>

StopLookupEvents_SignalFirst(found) == IF found THEN <<"TERM", "Stopping">> ELSE <<>>

StopLookupEvents(found) == IF found THEN <<"Stopping", "TERM">> ELSE <<>>

\* lines 474-521: the lookup under the lock; when found: Stopping, the pid
\* read under the process lock, the graceful signal. The outcome of the
\* signal command is discarded (let _ =); the log notes a failed delivery.
StopLookup(c, id) ==
    /\ cpc[c] = "idle"
    /\ LET p == Get(processes, id) IN
       IF p = NoProc
       THEN /\ ret' = Returned(c, StopResult(id, FALSE, "Server is not running"),
                               StopLookupEvents(FALSE))
            /\ UNCHANGED <<cpc, cid, ch, log, attended, overlapped>>
       ELSE /\ \E serr \in SignalErrs :
                 log' = [log EXCEPT ![c] = IF serr THEN Append(StopLookupEvents(TRUE), "TERM_failed")
                                                   ELSE StopLookupEvents(TRUE)]
            /\ overlapped' = [Overlap(c, id) EXCEPT ![c] = FALSE]
            /\ attended' = [q \in Procs |-> attended[q] \/ (q <= nprocs /\ procId[q] = id)]
            /\ ch' = [ch EXCEPT ![c] = p]
            /\ cid' = [cid EXCEPT ![c] = id]
            /\ cpc' = [cpc EXCEPT ![c] = "t_wait"]
            /\ ret' = NoRet
    /\ UNCHANGED <<processes, procVars, polls, startedSince, monVars, wpc, cmdVars, stoppedOf,
                   exitOf, waitFaults, lockVars, textVars, rdrVars>>

\* lines 569-573: processes.remove(&instance_id) under the lock.
StopRemoveEntry_Skipped(reg, id) == reg

StopRemoveEntry(reg, id) == Remove(reg, id)

\* line 528: start.elapsed().as_secs() >= timeout_secs, after n sleeps.
StopTimeoutReached_Never(n) == FALSE

StopTimeoutReached(n) == n >= MaxPolls

\* lines 549-566: an iteration before the timeout whose try_wait, under the
\* process lock, finds the process running: the lock is released and the
\* loop sleeps 200 ms.
StopPoll(c) ==
    /\ cpc[c] = "t_wait"
    /\ ~StopTimeoutReached(polls[c])
    /\ TryWait(ch[c], FALSE) = "running"
    /\ polls[c] < MaxPolls
    /\ polls' = [polls EXCEPT ![c] = @ + 1]
    /\ ret' = NoRet
    /\ UNCHANGED <<processes, procVars, cpc, cid, ch, log, startedSince, overlapped, monVars,
                   wpc, cmdVars, evVars>>

\* lines 527-573: the wait loop ends, by the timeout (forced kill, sent
\* without an exit check) or before it by a try_wait that reports an exit
\* or an error; then the entry is removed by id under the registry lock.
StopWaitWith(c, how) ==
    /\ cpc[c] = "t_wait"
    /\ \/ /\ how = "timeout"
          /\ StopTimeoutReached(polls[c])
          /\ log' = [log EXCEPT ![c] = Append(@, "KILL")]
       \/ /\ how \in {"exited", "err"}
          /\ ~StopTimeoutReached(polls[c])
          /\ (how = "err") \in WaitErrs
          /\ TryWait(ch[c], how = "err") = how
          /\ UNCHANGED log
    /\ processes' = StopRemoveEntry(processes, cid[c])
    /\ startedSince' = [startedSince EXCEPT ![c] = FALSE]
    /\ polls' = [polls EXCEPT ![c] = 0]
    /\ cpc' = [cpc EXCEPT ![c] = "t_done"]
    /\ ret' = NoRet
    /\ UNCHANGED <<procVars, cid, ch, overlapped, monVars, wpc, cmdVars, evVars>>

StopWait(c) == \E how \in {"timeout", "exited", "err"} : StopWaitWith(c, how)

\* lines 575-588: Stopped, then the call returns success and drops process_arc.
StopDone(c) ==
    /\ cpc[c] = "t_done"
    /\ ret' = Returned(c, StopResult(cid[c], TRUE, ""), Append(log[c], "Stopped"))
    /\ log' = [log EXCEPT ![c] = <<>>]
    /\ stoppedOf' = [stoppedOf EXCEPT ![ch[c]] = @ + 1]
    /\ cpc' = [cpc EXCEPT ![c] = "idle"]
    /\ ch' = [ch EXCEPT ![c] = NoProc]
    /\ cid' = [cid EXCEPT ![c] = ""]
    /\ startedSince' = [startedSince EXCEPT ![c] = FALSE]
    /\ UNCHANGED <<processes, procVars, polls, overlapped, monVars, wpc, cmdVars, exitOf,
                   attended, waitFaults, lockVars, textVars, rdrVars>>

\* ----------------------------------------------------------- exit monitor
\* lines 409-434: one tick of the monitor created for handle m. It looks the
\* instance id up again on every tick and polls whatever handle is there.
MonitorAbsent_Cleanup == "cleanup"

\* lines 430-433: the id has no entry: break, past the cleanup block
MonitorAbsent == "done"

MonitorTick(m) ==
    /\ mpc[m] = "sleep"
    /\ LET q == Get(processes, procId[m]) IN
       IF q = NoProc
       THEN /\ mpc' = [mpc EXCEPT ![m] = MonitorAbsent]
            /\ UNCHANGED mseen
       ELSE \E err \in WaitErrs :
            /\ TryWait(q, err) # "running"
            /\ mpc' = [mpc EXCEPT ![m] = "cleanup"]
            /\ mseen' = [mseen EXCEPT ![m] = q]
    /\ ret' = NoRet
    /\ UNCHANGED <<processes, procVars, callVars, wpc, cmdVars, evVars>>

\* lines 437-441: processes.remove(&instance_id_monitor) under the lock.
MonitorRemoveEntry_Everything(reg, id) == [i \in Ids |-> NoProc]

MonitorRemoveEntry(reg, id) == Remove(reg, id)

\* lines 436-453: should_cleanup: remove by id, Stopped, server-exit, break.
MonitorCleanup(m) ==
    /\ mpc[m] = "cleanup"
    /\ processes' = MonitorRemoveEntry(processes, procId[m])
    /\ stoppedOf' = [stoppedOf EXCEPT ![mseen[m]] = @ + 1]
    /\ exitOf' = [exitOf EXCEPT ![mseen[m]] = @ + 1]
    /\ mpc' = [mpc EXCEPT ![m] = "done"]
    /\ mseen' = [mseen EXCEPT ![m] = NoProc]
    /\ ret' = NoRet
    /\ UNCHANGED <<procVars, callVars, wpc, cmdVars, attended, waitFaults, lockVars, textVars, rdrVars>>

\* ------------------------------------------------------------------- text
\* A string is the sequence of its characters.
ESC == "ESC"
TAB == "TAB"
Https == <<"h", "t", "t", "p", "s", ":", "/", "/">>
UserCode == <<"u", "s", "e", "r", "_", "c", "o", "d", "e", "=">>
EnterCode == <<"E", "n", "t", "e", "r", " ", "c", "o", "d", "e", ":">>
VerifyUrl == <<"h", "t", "t", "p", "s", ":", "/", "/", "o", "a", "u", "t", "h", ".", "a", "c", "c", "o", "u", "n", "t", "s", ".", "h", "y", "t", "a", "l", "e", ".", "c", "o", "m", "/", "o", "a", "u", "t", "h", "2", "/", "d", "e", "v", "i", "c", "e", "/", "v", "e", "r", "i", "f", "y", "?", "u", "s", "e", "r", "_", "c", "o", "d", "e", "=">>

\* char::is_whitespace
IsWhitespace(chr) == chr \in {" ", TAB}

\* str::find(pattern): the index of the first occurrence, 0 for Option::None
Find(s, pat) ==
    LET hits == {i \in 1..(Len(s) - Len(pat) + 1) : SubSeq(s, i, i + Len(pat) - 1) = pat}
    IN IF hits = {} THEN 0 ELSE CHOOSE i \in hits : \A j \in hits : i <= j

\* str::contains
Contains(s, pat) == Find(s, pat) # 0

\* &s[i..]
From(s, i) == SubSeq(s, i, Len(s))

\* str::find(|c| c.is_whitespace()), 0 for None
FindWhitespace(s) ==
    LET hits == {i \in 1..Len(s) : IsWhitespace(s[i])}
    IN IF hits = {} THEN 0 ELSE CHOOSE i \in hits : \A j \in hits : i <= j

\* str::split_whitespace().next(): the first run of non-whitespace characters
FirstToken(s) ==
    LET starts == {i \in 1..Len(s) : ~IsWhitespace(s[i])} IN
    IF starts = {} THEN None
    ELSE LET a == CHOOSE i \in starts : \A j \in starts : i <= j
             w == FindWhitespace(From(s, a))
         IN Some(IF w = 0 THEN From(s, a) ELSE SubSeq(s, a, a + w - 2))

\* lines 675-694: a character ESC and everything after it up to and
\* including the next 'm' is skipped, every other character is kept. The
\* characters before the first ESC are copied in one piece.
RECURSIVE strip_ansi_codes(_)
strip_ansi_codes(s) ==
    LET e == Find(s, <<ESC>>) IN
    IF e = 0 THEN s
    ELSE LET rest == From(s, e + 1)
             k == Find(rest, <<"m">>)
         IN SubSeq(s, 1, e - 1)
            \o (IF k = 0 THEN <<>> ELSE strip_ansi_codes(From(rest, k + 1)))

AuthEvent(instance_id, auth_url, code) ==
    Some([instance_id |-> instance_id, auth_url |-> auth_url, code |-> code])

\* lines 703-719: the URL that starts at the first "https://"
UrlPattern(instance_id, clean_line) ==
    IF Contains(clean_line, UserCode) /\ Contains(clean_line, Https)
    THEN LET url_start == Find(clean_line, Https)
             url_part == From(clean_line, url_start)
             e == FindWhitespace(url_part)
             url_end == IF e = 0 THEN Len(url_part) ELSE e - 1
             auth_url == SubSeq(url_part, 1, url_end)
             code_start == Find(auth_url, UserCode)
         IN IF code_start # 0
            THEN AuthEvent(instance_id, auth_url, From(auth_url, code_start + 10))
            ELSE None
    ELSE None

\* lines 722-734: "Enter code:" and the token after it
CodePattern(instance_id, clean_line) ==
    IF Contains(clean_line, EnterCode)
    THEN LET code_start == Find(clean_line, EnterCode)
             after_code == From(clean_line, code_start + 11)
             code == FirstToken(after_code)
         IN IF code.some
            THEN AuthEvent(instance_id, VerifyUrl \o code.val, code.val)
            ELSE None
    ELSE None

\* lines 697-737
parse_auth_event(instance_id, text) ==
    LET clean_line == strip_ansi_codes(text)
        byUrl == UrlPattern(instance_id, clean_line)
    IN IF byUrl.some THEN byUrl ELSE CodePattern(instance_id, clean_line)

\* ------------------------------------------------------------ stdout loop
AutoSelected == <<"A", "u", "t", "o", "-", "s", "e", "l", "e", "c", "t", "e", "d", " ", "p", "r", "o", "f", "i", "l", "e", ":">>
NoTokens == <<"N", "o", " ", "s", "e", "r", "v", "e", "r", " ", "t", "o", "k", "e", "n", "s", " ", "c", "o", "n", "f", "i", "g", "u", "r", "e", "d">>
MemoryOnly == <<"C", "r", "e", "d", "e", "n", "t", "i", "a", "l", "s", " ", "s", "t", "o", "r", "e", "d", " ", "i", "n", " ", "m", "e", "m", "o", "r", "y", " ", "o", "n", "l", "y">>
AuthOk == <<"A", "u", "t", "h", "e", "n", "t", "i", "c", "a", "t", "i", "o", "n", " ", "s", "u", "c", "c", "e", "s", "s", "f", "u", "l">>
ModeLabel == <<"M", "o", "d", "e", ":">>
DefaultMode == <<"O", "A", "U", "T", "H", "_", "D", "E", "V", "I", "C", "E">>

\* str::trim
Trim(s) ==
    LET keep == {i \in 1..Len(s) : ~IsWhitespace(s[i])} IN
    IF keep = {} THEN <<>>
    ELSE SubSeq(s, CHOOSE i \in keep : \A j \in keep : i <= j,
                   CHOOSE i \in keep : \A j \in keep : j <= i)

\* lines 331-340: the name is cut out of the line as it was read
CaptureProfile(text, last) ==
    IF Contains(text, AutoSelected)
    THEN LET start == Find(text, AutoSelected)
             after == From(text, start + 22)
             paren_pos == Find(after, <<"(">>)
         IN IF paren_pos # 0 THEN Some(Trim(SubSeq(after, 1, paren_pos - 1))) ELSE last
    ELSE last

\* lines 350-356: text.split("Mode:").nth(1), trimmed
AuthMode(text) ==
    IF Contains(text, ModeLabel)
    THEN LET rest == From(text, Find(text, ModeLabel) + Len(ModeLabel))
             next == Find(rest, ModeLabel)
         IN Trim(IF next = 0 THEN rest ELSE SubSeq(rest, 1, next - 1))
    ELSE DefaultMode

Event(name, instance_id, payload) ==
    [name |-> name, instance_id |-> instance_id, payload |-> payload]

\* lines 308-364: the events one line makes the loop emit, in order; name is
\* last_profile_name after the capture of this line
\* lines 32-37, without the timestamp
ServerOutput(text, stream) == [line |-> text, stream |-> stream]

StdoutEvents(instance_id, text, name) ==
    <<Event("server-output", instance_id, ServerOutput(text, "stdout"))>>
    \o (IF Contains(text, NoTokens)
        THEN <<Event("server-auth-needed", instance_id, <<>>)>> ELSE <<>>)
    \o (IF Contains(text, MemoryOnly)
        THEN <<Event("server-auth-needs-persistence", instance_id, <<>>)>> ELSE <<>>)
    \o (IF parse_auth_event(instance_id, text).some
        THEN <<Event("server-auth-required", instance_id, parse_auth_event(instance_id, text).val)>>
        ELSE <<>>)
    \o (IF Contains(text, AuthOk)
        THEN <<Event("server-auth-success", instance_id,
                     [profile_name |-> name, auth_mode |-> AuthMode(text)])>>
        ELSE <<>>)

\* lines 305-365: the stdout loop of handle p reads one line and handles it
StdoutLine(p, text) ==
    /\ opc[p] = "run"
    /\ profile' = [profile EXCEPT ![p] = CaptureProfile(text, @)]
    /\ out' = [of |-> p, line |-> text,
               events |-> StdoutEvents(procId[p], text, CaptureProfile(text, profile[p]))]
    /\ ret' = NoRet
    /\ UNCHANGED <<processes, procVars, callVars, monVars, wpc, cmdVars, stoppedOf, exitOf,
                   attended, waitFaults, lockVars, line, parsed, rdrVars>>

\* lines 382-392: the stderr loop of handle p reads one line and relays it
StderrLine(p, text) ==
    /\ epc[p] = "run"
    /\ out' = [of |-> p, line |-> text,
               events |-> <<Event("server-output", procId[p], ServerOutput(text, "stderr"))>>]
    /\ ret' = NoRet
    /\ UNCHANGED <<processes, procVars, callVars, monVars, wpc, cmdVars, stoppedOf, exitOf,
                   attended, waitFaults, lockVars, line, parsed, profile, rdrVars>>

\* How reader.lines() can end on a pipe of handle p: the iterator is exhausted
\* once the child, the only holder of the write end, has exited; a read can
\* fail at any time in a behaviour with faults.
ReadEnds(p) ==
    (IF alive[p] = "exited" THEN {"eof"} ELSE {}) \cup (IF waitFaults THEN {"failed"} ELSE {})

ReaderBreak_RemovesEntry(reg, id) == Remove(reg, id)

\* lines 366-372, 393-399: a reader that ends prints a line and returns; the
\* registry is as it was.
ReaderBreak(reg, id) == reg

\* lines 305, 366-372: the stdout loop ends at end of file or on a read error
StdoutEnd(p) ==
    /\ opc[p] = "run"
    /\ \E why \in ReadEnds(p) : opc' = [opc EXCEPT ![p] = why]
    /\ processes' = ReaderBreak(processes, procId[p])
    /\ ret' = NoRet
    /\ UNCHANGED <<procVars, callVars, monVars, wpc, cmdVars, stoppedOf, exitOf,
                   attended, waitFaults, lockVars, textVars, epc>>

\* lines 382, 393-399: the stderr loop ends at end of file or on a read error
StderrEnd(p) ==
    /\ epc[p] = "run"
    /\ \E why \in ReadEnds(p) : epc' = [epc EXCEPT ![p] = why]
    /\ processes' = ReaderBreak(processes, procId[p])
    /\ ret' = NoRet
    /\ UNCHANGED <<procVars, callVars, monVars, wpc, cmdVars, stoppedOf, exitOf,
                   attended, waitFaults, lockVars, textVars, opc>>

ColourOn == <<ESC, "[", "1", "m">>
ColourOff == <<ESC, "[", "0", "m">>

\* what the child prints: the profile line plain, with the name in colour and
\* without the parenthesis, the success line with and without a mode, and with a
\* colour code after the mode, both
\* on one line, the missing-tokens line, and a line with three sentinels
LoopLines ==
    { AutoSelected \o <<" ", "N", "a", "t", " ", "(", "u", ")">>,
      AutoSelected \o <<" ">> \o ColourOn \o <<"N", "a", "t">> \o ColourOff \o <<" ", "(", "u", ")">>,
      AutoSelected \o <<" ", "B", "o", "b">>,
      AuthOk \o <<"!", " ", "M", "o", "d", "e", ":", " ", "O", "A", "U", "T", "H">>,
      AuthOk,
      AuthOk \o <<"!", " ", "M", "o", "d", "e", ":", " ", "O", "A", "U", "T", "H">> \o ColourOff,
      AutoSelected \o <<" ", "E", "v", "e", " ", "(", "v", ")", " ">> \o AuthOk,
      NoTokens,
      MemoryOnly \o <<" ">> \o <<"h", "t", "t", "p", "s", ":", "/", "/", "h", "/", "v", "?", "u", "s", "e", "r", "_", "c", "o", "d", "e", "=", "Z", "z">> \o <<" ">> \o AuthOk }

\* what the child prints on stderr
ErrLines == {<<"W", "A", "R", "N">>}

\* the pieces lines are made of: a blank, a URL without and a URL with the
\* code parameter, the fallback label, a word, a colour code, an erase-line code
Chunks ==
    { <<" ">>,
      <<"h", "t", "t", "p", "s", ":", "/", "/", "h", "/", "x">>,
      <<"h", "t", "t", "p", "s", ":", "/", "/", "h", "/", "v", "?", "u", "s", "e", "r", "_", "c", "o", "d", "e", "=", "Z", "z">>,
      EnterCode,
      <<"A", "B", "1", "2">>,
      <<ESC, "[", "1", "m">>,
      <<ESC, "[", "K">> }

RECURSIVE LinesOf(_)
LinesOf(n) ==
    IF n = 0 THEN {<<>>}
    ELSE LET shorter == LinesOf(n - 1) IN
         shorter \cup {l \o k : l \in shorter, k \in Chunks}

Lines == LinesOf(MaxChunks)

\* line 343: the stdout loop hands a line to parse_auth_event
ParseInit ==
    /\ InitState
    /\ waitFaults = FALSE
    /\ line \in Lines
    /\ parsed = NotParsed
    /\ profile = [p \in Procs |-> None]
    /\ out = NoOut

ParseLine ==
    /\ ~parsed.done
    /\ parsed' = [done |-> TRUE, res |-> parse_auth_event("a", line)]
    /\ UNCHANGED <<processes, procVars, callVars, ret, monVars, wpc, cmdVars, stoppedOf, exitOf,
                   attended, waitFaults, lockVars, line, profile, out, rdrVars>>

ParseNext == ParseLine

ParseSpec == ParseInit /\ [][ParseNext]_vars

\* ------------------------------------------------------ get_server_status
GetServerStatus_Transient(id) ==
    LET p == Get(processes, id) IN
    IF \E c \in Callers : cpc[c] = "t_wait" /\ cid[c] = id
    THEN ServerStatusInfo(id, "Stopping", NoProc, NoProc)
    ELSE IF p # NoProc
    THEN ServerStatusInfo(id, "Running", PidOf(p), StartedAtOf(p))
    ELSE ServerStatusInfo(id, "Stopped", NoProc, NoProc)

\* lines 597-615: the answer is read off the registry under the lock.
StatusIn(reg, id) ==
    LET p == Get(reg, id) IN
    IF p # NoProc
    THEN ServerStatusInfo(id, "Running", PidOf(p), StartedAtOf(p))
    ELSE ServerStatusInfo(id, "Stopped", NoProc, NoProc)

GetServerStatus(id) == StatusIn(processes, id)

StatusCall(c, id) ==
    /\ cpc[c] = "idle"
    /\ ret' = Returned(c, GetServerStatus(id), <<>>)
    /\ UNCHANGED <<processes, procVars, callVars, monVars, wpc, cmdVars, evVars>>

\* ------------------------------------------------ get_all_server_statuses
Keys(reg) == {i \in Ids : reg[i] # NoProc}

GetAllServerStatuses_EveryId(reg) ==
    {IF reg[i] # NoProc
     THEN ServerStatusInfo(i, "Running", PidOf(reg[i]), StartedAtOf(reg[i]))
     ELSE ServerStatusInfo(i, "Stopped", NoProc, NoProc) : i \in Ids}

\* lines 623-633: under the registry lock, one element per entry, each read
\* under that entry's process lock.
GetAllServerStatuses(reg) ==
    {ServerStatusInfo(i, "Running", PidOf(reg[i]), StartedAtOf(reg[i])) : i \in Keys(reg)}

StatusAllCall(c) ==
    /\ cpc[c] = "idle"
    /\ ret' = Returned(c, AllStatuses(GetAllServerStatuses(processes)), <<>>)
    /\ UNCHANGED <<processes, procVars, callVars, monVars, wpc, cmdVars, evVars>>

\* ---------------------------------------------------- send_server_command
\* The receiver stdin_rx exists from the channel's creation (line 244) until
\* the writer thread that owns it returns, which is after its loop has ended.
ReceiverAlive(p) == wpc[p] \in {"none", "run", "broke"}

SendAccepted_SendErrorIgnored(id) == Get(processes, id) # NoProc

\* lines 645-667: true exactly when the id has an entry and tx.send is Ok.
SendAccepted(id) ==
    /\ Get(processes, id) # NoProc
    /\ ReceiverAlive(Get(processes, id))

TotalAccepted ==
    LET n[p \in 0..MaxProcs] == IF p = 0 THEN 0 ELSE n[p - 1] + Len(accepted[p])
    IN n[MaxProcs]

SendServerCommand(c, id, command) ==
    /\ cpc[c] = "idle"
    /\ TotalAccepted < MaxCmds
    /\ ret' = Returned(c, SendResult(id, SendAccepted(id)), <<>>)
    /\ IF SendAccepted(id)
       THEN /\ queue' = [queue EXCEPT ![processes[id]] = Append(@, command)]
            /\ accepted' = [accepted EXCEPT ![processes[id]] = Append(@, command)]
       ELSE UNCHANGED <<queue, accepted>>
    /\ UNCHANGED <<processes, procVars, callVars, monVars, wpc, written, evVars>>

\* ------------------------------------------------------------ stdin writer
WithNewline_Always(command) == Append(command, NL)

\* lines 278-282
WithNewline(command) ==
    IF Len(command) > 0 /\ command[Len(command)] = NL
    THEN command
    ELSE Append(command, NL)

WriterBreak_RemovesEntry(reg, id) == Remove(reg, id)

\* lines 283-293: a failed write or flush prints a line and leaves the loop;
\* the registry is as it was.
WriterBreak(reg, id) == reg

\* lines 276-292: recv one command and write it: the write and the flush can
\* each fail, which ends the loop; the thread then is at its last line
\* (broke), or has returned as well and dropped the receiver with what the
\* channel holds (failed).
WriterIteration(p, onError) ==
    /\ wpc[p] = "run"
    /\ queue[p] # <<>>
    /\ \E io \in {"ok", "write_err", "flush_err"} :
         /\ written' = [written EXCEPT ![p] =
                          IF io = "write_err" THEN @ ELSE Append(@, WithNewline(Head(queue[p])))]
         /\ queue' = [queue EXCEPT ![p] =
                        IF io = "ok" \/ onError = "broke" THEN Tail(@) ELSE <<>>]
         /\ wpc' = [wpc EXCEPT ![p] = IF io = "ok" THEN "run" ELSE onError]
         /\ processes' = IF io = "ok" THEN processes ELSE WriterBreak(processes, procId[p])
    /\ ret' = NoRet
    /\ UNCHANGED <<procVars, callVars, monVars, accepted, evVars>>

\* an iteration of the writer, the return of the thread taken together with
\* the failure that ends the loop
WriterWrite(p) == WriterIteration(p, "failed")

\* an iteration of the writer, the return of the thread left to WriterDrop
WriterStep(p) == WriterIteration(p, "broke")

\* lines 293-294: the thread whose loop a failure has ended prints its last
\* line and returns: stdin_rx is dropped with what the channel still holds.
WriterDrop(p) ==
    /\ wpc[p] = "broke"
    /\ wpc' = [wpc EXCEPT ![p] = "failed"]
    /\ queue' = [queue EXCEPT ![p] = <<>>]
    /\ ret' = NoRet
    /\ UNCHANGED <<processes, procVars, callVars, monVars, accepted, written, evVars>>

\* line 276: recv fails once the queue is empty and every sender is dropped.
WriterExit(p) ==
    /\ wpc[p] = "run"
    /\ queue[p] = <<>>
    /\ ~HandleLive(p)
    /\ wpc' = [wpc EXCEPT ![p] = "done"]
    /\ ret' = NoRet
    /\ UNCHANGED <<processes, procVars, callVars, monVars, cmdVars, evVars>>

\* ------------------------------------------------------------------- Next
\* The commands that change the registry, the status query, the exit monitors
\* and the OS processes, with both callers free to invoke any command at any
\* time.
Next ==
    \/ \E c \in Callers, id \in Shared : StartCheck(c, id)
    \/ \E c \in Callers : StartSpawn(c)
    \/ \E c \in Callers : StartThreads(c)
    \/ \E c \in Callers, id \in Shared : StopLookup(c, id)
    \/ \E c \in Callers : StopPoll(c)
    \/ \E c \in Callers : StopWait(c)
    \/ \E c \in Callers : StopDone(c)
    \/ \E c \in Callers, id \in Shared : StatusCall(c, id)
    \/ \E p \in Procs : MonitorTick(p)
    \/ \E p \in Procs : MonitorCleanup(p)
    \/ \E p \in Procs : ProcExit(p)

Spec == Init /\ [][Next]_vars

\* The same with try_wait and the delivery of the graceful signal allowed
\* to fail.
FaultSpec == FaultInit /\ [][Next]_vars

\* A command that has been invoked runs on: time passes in stop_server's wait
\* loop, and no step of it waits for anything but a lock that its holders
\* release after a non-blocking call. The OS processes are under no such
\* obligation.
StopFairness ==
    \A c \in Callers : WF_vars(StopPoll(c)) /\ WF_vars(StopWait(c)) /\ WF_vars(StopDone(c))

StopFairSpec == Spec /\ StopFairness

FaultFairSpec == FaultSpec /\ StopFairness

\* The command channel: both callers send commands concurrently while one of
\* them also starts and stops the instance, and the writers run. Sending and
\* writing change only the channel, so the registry behaves as under Spec.
Operator == CHOOSE c \in Callers : TRUE

CmdNext ==
    \/ \E id \in Shared : StartCheck(Operator, id)
    \/ StartSpawn(Operator)
    \/ StartThreads(Operator)
    \/ \E id \in Shared : StopLookup(Operator, id)
    \/ StopPoll(Operator)
    \/ StopWait(Operator)
    \/ StopDone(Operator)
    \/ \E p \in Procs : MonitorTick(p)
    \/ \E p \in Procs : MonitorCleanup(p)
    \/ \E p \in Procs : ProcExit(p)
    \/ \E c \in Callers, id \in Shared, command \in Cmds : SendServerCommand(c, id, command)
    \/ \E p \in Procs : WriterWrite(p)
    \/ \E p \in Procs : WriterExit(p)

CmdSpec == Init /\ [][CmdNext]_vars

\* Threads that can run do run: start_server goes on to create the writer,
\* and a writer whose recv has something to return takes it.
CmdFairness ==
    /\ \A p \in Procs : WF_vars(WriterWrite(p)) /\ WF_vars(WriterExit(p))
    /\ WF_vars(StartThreads(Operator))

CmdFairSpec == CmdSpec /\ CmdFairness

\* Two instances side by side: each caller starts, stops and sends commands
\* to an instance of its own, concurrently with the other caller and with
\* the threads of both instances.
Home == [c \in Callers |-> IF c = Operator THEN "a" ELSE "b"]

IsoCmds == {<<"x">>}

IsoNext ==
    \/ \E c \in Callers : StartCheck(c, Home[c])
    \/ \E c \in Callers : StartSpawn(c)
    \/ \E c \in Callers : StartThreads(c)
    \/ \E c \in Callers : StopLookup(c, Home[c])
    \/ \E c \in Callers : StopPoll(c)
    \/ \E c \in Callers : StopWait(c)
    \/ \E c \in Callers : StopDone(c)
    \/ \E p \in Procs : MonitorTick(p)
    \/ \E p \in Procs : MonitorCleanup(p)
    \/ \E p \in Procs : ProcExit(p)
    \/ \E c \in Callers, command \in IsoCmds : SendServerCommand(c, Home[c], command)
    \/ \E p \in Procs : WriterWrite(p)
    \/ \E p \in Procs : WriterExit(p)

IsoSpec == Init /\ [][IsoNext]_vars

\* The status listing, taken by either caller between its other commands
\* while the two instances start, stop and exit.
SnapNext ==
    \/ \E c \in Callers : StartCheck(c, Home[c])
    \/ \E c \in Callers : StartSpawn(c)
    \/ \E c \in Callers : StartThreads(c)
    \/ \E c \in Callers : StopLookup(c, Home[c])
    \/ \E c \in Callers : StopPoll(c)
    \/ \E c \in Callers : StopWait(c)
    \/ \E c \in Callers : StopDone(c)
    \/ \E p \in Procs : MonitorTick(p)
    \/ \E p \in Procs : MonitorCleanup(p)
    \/ \E p \in Procs : ProcExit(p)
    \/ \E c \in Callers : StatusAllCall(c)

SnapSpec == Init /\ [][SnapNext]_vars

\* One caller starts the instance, the process prints and exits, the monitor
\* cleans up and the caller starts the instance again.
LoopNext ==
    \/ \E id \in Shared : StartCheck(Operator, id)
    \/ StartSpawn(Operator)
    \/ StartThreads(Operator)
    \/ \E p \in Procs : MonitorTick(p)
    \/ \E p \in Procs : MonitorCleanup(p)
    \/ \E p \in Procs : ProcExit(p)
    \/ \E p \in Procs, text \in LoopLines : StdoutLine(p, text)
    \/ \E p \in Procs, text \in ErrLines : StderrLine(p, text)
    \/ \E p \in Procs : StdoutEnd(p)
    \/ \E p \in Procs : StderrEnd(p)

LoopSpec == Init /\ [][LoopNext]_vars

\* The four loops of each process next to the commands: one caller starts
\* and stops the instance, the child exits, and reads and try_wait can fail.
\* What the readers relay and what the writer writes change nothing that
\* another loop or a command reads, and are left to LoopSpec and CmdSpec.
ThreadNext ==
    \/ \E id \in Shared : StartCheck(Operator, id)
    \/ StartSpawn(Operator)
    \/ StartThreads(Operator)
    \/ \E id \in Shared : StopLookup(Operator, id)
    \/ StopPoll(Operator)
    \/ StopWait(Operator)
    \/ StopDone(Operator)
    \/ \E p \in Procs : MonitorTick(p)
    \/ \E p \in Procs : MonitorCleanup(p)
    \/ \E p \in Procs : ProcExit(p)
    \/ \E p \in Procs : StdoutEnd(p)
    \/ \E p \in Procs : StderrEnd(p)
    \/ \E p \in Procs : WriterExit(p)

ThreadSpec == FaultInit /\ [][ThreadNext]_vars

\* The end of a writer, step by step: one caller starts the instance and
\* sends commands to it, the writer takes them, fails and returns, and the
\* process exits by itself.
EndNext ==
    \/ \E id \in Shared : StartCheck(Operator, id)
    \/ StartSpawn(Operator)
    \/ StartThreads(Operator)
    \/ \E p \in Procs : MonitorTick(p)
    \/ \E p \in Procs : MonitorCleanup(p)
    \/ \E p \in Procs : ProcExit(p)
    \/ \E id \in Shared, command \in Cmds : SendServerCommand(Operator, id, command)
    \/ \E p \in Procs : WriterStep(p)
    \/ \E p \in Procs : WriterDrop(p)
    \/ \E p \in Procs : WriterExit(p)

EndSpec == Init /\ [][EndNext]_vars

\* Threads that can run do run: the monitors wake up from their sleep, a
\* reader whose read returns goes on, a writer whose recv returns goes on, and
\* the commands run on. Nothing fails, so that no loop ends by a fault, and
\* the OS processes are under no obligation to exit.
ThreadFairness ==
    /\ StopFairness
    /\ WF_vars(StartSpawn(Operator)) /\ WF_vars(StartThreads(Operator))
    /\ \A p \in Procs :
          /\ WF_vars(MonitorTick(p)) /\ WF_vars(MonitorCleanup(p))
          /\ WF_vars(StdoutEnd(p)) /\ WF_vars(StderrEnd(p)) /\ WF_vars(WriterExit(p))

ThreadFairSpec == Init /\ [][ThreadNext]_vars /\ ThreadFairness

\* ------------------------------------------------------------- the locks
\* The commands and the exit monitor once more, one step per lock operation
\* and per operation that can block, to follow who holds the registry mutex
\* (Arc<Mutex<ServerState>>) and the mutex of each handle
\* (Arc<Mutex<ServerProcess>>). Events, the results of start_server and of
\* stop_server and the channel are left out: they are as in the steps above.
lockRest ==
    <<log, startedSince, overlapped, wpc, cmdVars, stoppedOf, exitOf, attended,
      waitFaults, textVars, rdrVars, mlock, todo>>

\* state.lock() returns once no thread holds the registry mutex
RegistryLockFree == rlock = Free

ProcLockFree_Unchecked(p) == TRUE

\* process_arc.lock() returns once no thread holds the mutex of handle p
ProcLockFree(p) == plock[p] = Free

RegistryUnlock_Held(who) == who

\* a MutexGuard of the registry goes out of scope
RegistryUnlock(who) == Free

\* line 123
LockStartEnter(c, id) ==
    /\ cpc[c] = "idle"
    /\ RegistryLockFree
    /\ rlock' = Caller(c)
    /\ cid' = [cid EXCEPT ![c] = id]
    /\ cpc' = [cpc EXCEPT ![c] = "k_s_check"]
    /\ UNCHANGED <<processes, procVars, ch, polls, monVars, plock, lockRest>>
    /\ ret' = NoRet

\* lines 124-131: contains_key; the guard is dropped at the return or at the
\* end of the block
LockStartCheck(c) ==
    /\ cpc[c] = "k_s_check"
    /\ rlock' = RegistryUnlock(Caller(c))
    /\ IF ContainsKey(processes, cid[c])
       THEN /\ cpc' = [cpc EXCEPT ![c] = "idle"]
            /\ cid' = [cid EXCEPT ![c] = ""]
       ELSE /\ cpc' = [cpc EXCEPT ![c] = "k_s_spawn"]
            /\ UNCHANGED cid
    /\ UNCHANGED <<processes, procVars, ch, polls, monVars, plock, lockRest>>
    /\ ret' = NoRet

\* lines 133-257: Starting, the file checks, Command::spawn and the handle
LockStartSpawn(c) ==
    /\ cpc[c] = "k_s_spawn"
    /\ \E jar \in BOOLEAN, assets \in BOOLEAN, spawnOk \in BOOLEAN :
         IF StartPrecondition(jar, assets, spawnOk) # ""
         THEN /\ cpc' = [cpc EXCEPT ![c] = "idle"]
              /\ cid' = [cid EXCEPT ![c] = ""]
              /\ UNCHANGED <<procVars, ch>>
         ELSE /\ nprocs < MaxProcs
              /\ nprocs' = nprocs + 1
              /\ procId' = [procId EXCEPT ![nprocs + 1] = cid[c]]
              /\ alive' = [alive EXCEPT ![nprocs + 1] = "running"]
              /\ ch' = [ch EXCEPT ![c] = nprocs + 1]
              /\ cpc' = [cpc EXCEPT ![c] = "k_s_lock"]
              /\ UNCHANGED cid
    /\ UNCHANGED <<processes, polls, monVars, rlock, plock, lockRest>>
    /\ ret' = NoRet

\* line 261
LockStartInsertEnter(c) ==
    /\ cpc[c] = "k_s_lock"
    /\ RegistryLockFree
    /\ rlock' = Caller(c)
    /\ cpc' = [cpc EXCEPT ![c] = "k_s_insert"]
    /\ UNCHANGED <<processes, procVars, cid, ch, polls, monVars, plock, lockRest>>
    /\ ret' = NoRet

\* lines 262-263
LockStartInsert(c) ==
    /\ cpc[c] = "k_s_insert"
    /\ processes' = Insert(processes, cid[c], ch[c])
    /\ rlock' = RegistryUnlock(Caller(c))
    /\ cpc' = [cpc EXCEPT ![c] = "k_s_threads"]
    /\ UNCHANGED <<procVars, cid, ch, polls, monVars, plock, lockRest>>
    /\ ret' = NoRet

\* lines 265-462: Running, the four thread::spawn calls, the return
LockStartThreads(c) ==
    /\ cpc[c] = "k_s_threads"
    /\ mpc' = [mpc EXCEPT ![ch[c]] = "k_m_sleep"]
    /\ cpc' = [cpc EXCEPT ![c] = "idle"]
    /\ cid' = [cid EXCEPT ![c] = ""]
    /\ ch' = [ch EXCEPT ![c] = NoProc]
    /\ UNCHANGED <<processes, procVars, polls, mseen, rlock, plock, lockRest>>
    /\ ret' = NoRet

\* line 476
LockStopEnter(c, id) ==
    /\ cpc[c] = "idle"
    /\ RegistryLockFree
    /\ rlock' = Caller(c)
    /\ cid' = [cid EXCEPT ![c] = id]
    /\ cpc' = [cpc EXCEPT ![c] = "k_t_get"]
    /\ UNCHANGED <<processes, procVars, ch, polls, monVars, plock, lockRest>>
    /\ ret' = NoRet

\* lines 477-486: get and clone, or return; the guard is dropped either way
LockStopGet(c) ==
    /\ cpc[c] = "k_t_get"
    /\ rlock' = RegistryUnlock(Caller(c))
    /\ IF Get(processes, cid[c]) = NoProc
       THEN /\ cpc' = [cpc EXCEPT ![c] = "idle"]
            /\ cid' = [cid EXCEPT ![c] = ""]
            /\ UNCHANGED ch
       ELSE /\ cpc' = [cpc EXCEPT ![c] = "k_t_pid"]
            /\ ch' = [ch EXCEPT ![c] = Get(processes, cid[c])]
            /\ UNCHANGED cid
    /\ UNCHANGED <<processes, procVars, polls, monVars, plock, lockRest>>
    /\ ret' = NoRet

\* lines 488-498: Stopping, then the handle is locked to read the pid
LockStopPidEnter(c) ==
    /\ cpc[c] = "k_t_pid"
    /\ ProcLockFree(ch[c])
    /\ plock' = [plock EXCEPT ![ch[c]] = Caller(c)]
    /\ cpc' = [cpc EXCEPT ![c] = "k_t_pidread"]
    /\ UNCHANGED <<processes, procVars, cid, ch, polls, monVars, rlock, lockRest>>
    /\ ret' = NoRet

\* lines 499-500
LockStopPid(c) ==
    /\ cpc[c] = "k_t_pidread"
    /\ plock' = [plock EXCEPT ![ch[c]] = Free]
    /\ cpc' = [cpc EXCEPT ![c] = "k_t_signal"]
    /\ UNCHANGED <<processes, procVars, cid, ch, polls, monVars, rlock, lockRest>>
    /\ ret' = NoRet

\* lines 505-525: the command that delivers the graceful signal is run to its end
LockStopSignal(c) ==
    /\ cpc[c] = "k_t_signal"
    /\ polls' = [polls EXCEPT ![c] = 0]
    /\ cpc' = [cpc EXCEPT ![c] = "k_t_loop"]
    /\ UNCHANGED <<processes, procVars, cid, ch, monVars, rlock, plock, lockRest>>
    /\ ret' = NoRet

\* lines 528-547: the timeout is reached: the kill command is run to its end
LockStopTimeout(c) ==
    /\ cpc[c] = "k_t_loop"
    /\ StopTimeoutReached(polls[c])
    /\ cpc' = [cpc EXCEPT ![c] = "k_t_lock"]
    /\ UNCHANGED <<processes, procVars, cid, ch, polls, monVars, rlock, plock, lockRest>>
    /\ ret' = NoRet

\* line 550
LockStopTryEnter(c) ==
    /\ cpc[c] = "k_t_loop"
    /\ ~StopTimeoutReached(polls[c])
    /\ ProcLockFree(ch[c])
    /\ plock' = [plock EXCEPT ![ch[c]] = Caller(c)]
    /\ cpc' = [cpc EXCEPT ![c] = "k_t_try"]
    /\ UNCHANGED <<processes, procVars, cid, ch, polls, monVars, rlock, lockRest>>
    /\ ret' = NoRet

\* lines 551-564: try_wait, then the guard of the handle is dropped
LockStopTry(c) ==
    /\ cpc[c] = "k_t_try"
    /\ plock' = [plock EXCEPT ![ch[c]] = Free]
    /\ \E err \in WaitErrs :
         cpc' = [cpc EXCEPT ![c] =
                   IF TryWait(ch[c], err) = "running" THEN "k_t_sleep" ELSE "k_t_lock"]
    /\ UNCHANGED <<processes, procVars, cid, ch, polls, monVars, rlock, lockRest>>
    /\ ret' = NoRet

\* line 566
LockStopSleep(c) ==
    /\ cpc[c] = "k_t_sleep"
    /\ polls[c] < MaxPolls
    /\ polls' = [polls EXCEPT ![c] = @ + 1]
    /\ cpc' = [cpc EXCEPT ![c] = "k_t_loop"]
    /\ UNCHANGED <<processes, procVars, cid, ch, monVars, rlock, plock, lockRest>>
    /\ ret' = NoRet

\* line 571
LockStopRemoveEnter(c) ==
    /\ cpc[c] = "k_t_lock"
    /\ RegistryLockFree
    /\ rlock' = Caller(c)
    /\ cpc' = [cpc EXCEPT ![c] = "k_t_remove"]
    /\ UNCHANGED <<processes, procVars, cid, ch, polls, monVars, plock, lockRest>>
    /\ ret' = NoRet

\* lines 572-573
LockStopRemove(c) ==
    /\ cpc[c] = "k_t_remove"
    /\ processes' = StopRemoveEntry(processes, cid[c])
    /\ rlock' = RegistryUnlock(Caller(c))
    /\ cpc' = [cpc EXCEPT ![c] = "k_t_emit"]
    /\ UNCHANGED <<procVars, cid, ch, polls, monVars, plock, lockRest>>
    /\ ret' = NoRet

\* lines 575-588: Stopped, the return, process_arc is dropped
LockStopReturn(c) ==
    /\ cpc[c] = "k_t_emit"
    /\ cpc' = [cpc EXCEPT ![c] = "idle"]
    /\ cid' = [cid EXCEPT ![c] = ""]
    /\ ch' = [ch EXCEPT ![c] = NoProc]
    /\ polls' = [polls EXCEPT ![c] = 0]
    /\ UNCHANGED <<processes, procVars, monVars, rlock, plock, lockRest>>
    /\ ret' = NoRet

\* line 597
LockStatusEnter(c, id) ==
    /\ cpc[c] = "idle"
    /\ RegistryLockFree
    /\ rlock' = Caller(c)
    /\ cid' = [cid EXCEPT ![c] = id]
    /\ cpc' = [cpc EXCEPT ![c] = "k_g_get"]
    /\ UNCHANGED <<processes, procVars, ch, polls, monVars, plock, lockRest>>
    /\ ret' = NoRet

\* lines 599-600, 609-615: get; without an entry Stopped is returned and the
\* guard dropped, with one the handle is to be locked under the registry lock
LockStatusGet(c) ==
    /\ cpc[c] = "k_g_get"
    /\ IF Get(processes, cid[c]) = NoProc
       THEN /\ rlock' = RegistryUnlock(Caller(c))
            /\ cpc' = [cpc EXCEPT ![c] = "idle"]
            /\ cid' = [cid EXCEPT ![c] = ""]
            /\ ret' = Returned(c, StatusIn(processes, cid[c]), <<>>)
            /\ UNCHANGED ch
       ELSE /\ cpc' = [cpc EXCEPT ![c] = "k_g_plock"]
            /\ ch' = [ch EXCEPT ![c] = Get(processes, cid[c])]
            /\ ret' = NoRet
            /\ UNCHANGED <<cid, rlock>>
    /\ UNCHANGED <<processes, procVars, polls, monVars, plock, lockRest>>

\* line 601
LockStatusProcEnter(c) ==
    /\ cpc[c] = "k_g_plock"
    /\ ProcLockFree(ch[c])
    /\ plock' = [plock EXCEPT ![ch[c]] = Caller(c)]
    /\ cpc' = [cpc EXCEPT ![c] = "k_g_read"]
    /\ UNCHANGED <<processes, procVars, cid, ch, polls, monVars, rlock, lockRest>>
    /\ ret' = NoRet

\* lines 602-608, 616: the pid and the start time are read, both guards dropped
LockStatusRead(c) ==
    /\ cpc[c] = "k_g_read"
    /\ plock' = [plock EXCEPT ![ch[c]] = Free]
    /\ rlock' = RegistryUnlock(Caller(c))
    /\ cpc' = [cpc EXCEPT ![c] = "idle"]
    /\ cid' = [cid EXCEPT ![c] = ""]
    /\ ch' = [ch EXCEPT ![c] = NoProc]
    /\ ret' = Returned(c, StatusIn(processes, cid[c]), <<>>)
    /\ UNCHANGED <<processes, procVars, polls, monVars, lockRest>>

\* line 410: the sleep of 500 ms is over
LockMonitorWake(m) ==
    /\ mpc[m] = "k_m_sleep"
    /\ mpc' = [mpc EXCEPT ![m] = "k_m_lock"]
    /\ UNCHANGED <<processes, procVars, cpc, cid, ch, polls, mseen, rlock, plock, lockRest>>
    /\ ret' = NoRet

\* line 414
LockMonitorEnter(m) ==
    /\ mpc[m] = "k_m_lock"
    /\ RegistryLockFree
    /\ rlock' = Monitor(m)
    /\ mpc' = [mpc EXCEPT ![m] = "k_m_get"]
    /\ UNCHANGED <<processes, procVars, cpc, cid, ch, polls, mseen, plock, lockRest>>
    /\ ret' = NoRet

\* lines 415, 430-434: get by id; without an entry the loop is left and the
\* guard dropped, with one the handle is to be locked under the registry lock
LockMonitorGet(m) ==
    /\ mpc[m] = "k_m_get"
    /\ IF Get(processes, procId[m]) = NoProc
       THEN /\ rlock' = RegistryUnlock(Monitor(m))
            /\ mpc' = [mpc EXCEPT ![m] = "k_m_done"]
            /\ UNCHANGED mseen
       ELSE /\ mpc' = [mpc EXCEPT ![m] = "k_m_plock"]
            /\ mseen' = [mseen EXCEPT ![m] = Get(processes, procId[m])]
            /\ UNCHANGED rlock
    /\ UNCHANGED <<processes, procVars, cpc, cid, ch, polls, plock, lockRest>>
    /\ ret' = NoRet

\* line 416
LockMonitorProcEnter(m) ==
    /\ mpc[m] = "k_m_plock"
    /\ ProcLockFree(mseen[m])
    /\ plock' = [plock EXCEPT ![mseen[m]] = Monitor(m)]
    /\ mpc' = [mpc EXCEPT ![m] = "k_m_try"]
    /\ UNCHANGED <<processes, procVars, cpc, cid, ch, polls, mseen, rlock, lockRest>>
    /\ ret' = NoRet

\* lines 417-434: try_wait, then both guards are dropped at the end of the block
LockMonitorTry(m) ==
    /\ mpc[m] = "k_m_try"
    /\ plock' = [plock EXCEPT ![mseen[m]] = Free]
    /\ rlock' = RegistryUnlock(Monitor(m))
    /\ \E err \in WaitErrs :
         IF TryWait(mseen[m], err) = "running"
         THEN /\ mpc' = [mpc EXCEPT ![m] = "k_m_sleep"]
              /\ mseen' = [mseen EXCEPT ![m] = NoProc]
         ELSE /\ mpc' = [mpc EXCEPT ![m] = "k_m_clean"]
              /\ UNCHANGED mseen
    /\ UNCHANGED <<processes, procVars, cpc, cid, ch, polls, lockRest>>
    /\ ret' = NoRet

\* line 439
LockMonitorRemoveEnter(m) ==
    /\ mpc[m] = "k_m_clean"
    /\ RegistryLockFree
    /\ rlock' = Monitor(m)
    /\ mpc' = [mpc EXCEPT ![m] = "k_m_remove"]
    /\ UNCHANGED <<processes, procVars, cpc, cid, ch, polls, mseen, plock, lockRest>>
    /\ ret' = NoRet

\* lines 440-452: remove by id, the guard is dropped, Stopped, server-exit
LockMonitorRemove(m) ==
    /\ mpc[m] = "k_m_remove"
    /\ processes' = MonitorRemoveEntry(processes, procId[m])
    /\ rlock' = RegistryUnlock(Monitor(m))
    /\ mpc' = [mpc EXCEPT ![m] = "k_m_done"]
    /\ mseen' = [mseen EXCEPT ![m] = NoProc]
    /\ UNCHANGED <<procVars, cpc, cid, ch, polls, plock, lockRest>>
    /\ ret' = NoRet

\* Both callers invoke start_server, stop_server and get_server_status for
\* one id at any time, next to the exit monitors and the OS processes.
LockNext ==
    \/ \E c \in Callers, id \in Shared : LockStartEnter(c, id)
    \/ \E c \in Callers : LockStartCheck(c)
    \/ \E c \in Callers : LockStartSpawn(c)
    \/ \E c \in Callers : LockStartInsertEnter(c)
    \/ \E c \in Callers : LockStartInsert(c)
    \/ \E c \in Callers : LockStartThreads(c)
    \/ \E c \in Callers, id \in Shared : LockStopEnter(c, id)
    \/ \E c \in Callers : LockStopGet(c)
    \/ \E c \in Callers : LockStopPidEnter(c)
    \/ \E c \in Callers : LockStopPid(c)
    \/ \E c \in Callers : LockStopSignal(c)
    \/ \E c \in Callers : LockStopTimeout(c)
    \/ \E c \in Callers : LockStopTryEnter(c)
    \/ \E c \in Callers : LockStopTry(c)
    \/ \E c \in Callers : LockStopSleep(c)
    \/ \E c \in Callers : LockStopRemoveEnter(c)
    \/ \E c \in Callers : LockStopRemove(c)
    \/ \E c \in Callers : LockStopReturn(c)
    \/ \E c \in Callers, id \in Shared : LockStatusEnter(c, id)
    \/ \E c \in Callers : LockStatusGet(c)
    \/ \E c \in Callers : LockStatusProcEnter(c)
    \/ \E c \in Callers : LockStatusRead(c)
    \/ \E m \in Procs : LockMonitorWake(m)
    \/ \E m \in Procs : LockMonitorEnter(m)
    \/ \E m \in Procs : LockMonitorGet(m)
    \/ \E m \in Procs : LockMonitorProcEnter(m)
    \/ \E m \in Procs : LockMonitorTry(m)
    \/ \E m \in Procs : LockMonitorRemoveEnter(m)
    \/ \E m \in Procs : LockMonitorRemove(m)
    \/ \E p \in Procs : ProcExit(p)

LockSpec == FaultInit /\ [][LockNext]_vars

\* --------------------------------------------------- the order of the locks
\* The commands that take a handle's mutex or the mutex of the MetricsState
\* (Arc<Mutex<MetricsState>>) under the registry mutex, one step per lock
\* operation. The channel and the figures read from the OS are left out.
orderRest ==
    <<log, startedSince, overlapped, wpc, cmdVars, stoppedOf, exitOf, attended,
      waitFaults, textVars, rdrVars>>

state_guard_Dropped(who) == Free

\* metrics.rs lines 61, 125: state_guard lives to the end of the function
state_guard(who) == who

\* metrics_state.lock() returns once no thread holds the metrics mutex
MetricsLockFree == mlock = Free

\* metrics.rs lines 97-115, 161-169: the fields that do not come from the OS
ServerMetrics(id, pid, status) == [instance_id |-> id, pid |-> pid, status |-> status]

\* server.rs line 623
LockStatusesEnter(c) ==
    /\ cpc[c] = "idle"
    /\ RegistryLockFree
    /\ rlock' = Caller(c)
    /\ todo' = [todo EXCEPT ![c] = Keys(processes)]
    /\ cpc' = [cpc EXCEPT ![c] = "k_a_next"]
    /\ UNCHANGED <<processes, procVars, cid, ch, polls, monVars, plock, mlock, orderRest>>
    /\ ret' = NoRet

\* server.rs lines 625, 633: the next entry of the iteration, in the order
\* of the HashMap; after the last one the list is returned, the guard dropped
LockStatusesNext(c) ==
    /\ cpc[c] = "k_a_next"
    /\ IF todo[c] = {}
       THEN /\ rlock' = RegistryUnlock(Caller(c))
            /\ cpc' = [cpc EXCEPT ![c] = "idle"]
            /\ ret' = Returned(c, AllStatuses(GetAllServerStatuses(processes)), <<>>)
            /\ UNCHANGED <<cid, ch>>
       ELSE /\ \E id \in todo[c] :
                 /\ cid' = [cid EXCEPT ![c] = id]
                 /\ ch' = [ch EXCEPT ![c] = Get(processes, id)]
            /\ cpc' = [cpc EXCEPT ![c] = "k_a_plock"]
            /\ ret' = NoRet
            /\ UNCHANGED rlock
    /\ UNCHANGED <<processes, procVars, polls, monVars, plock, mlock, todo, orderRest>>

\* server.rs line 626
LockStatusesProcEnter(c) ==
    /\ cpc[c] = "k_a_plock"
    /\ ProcLockFree(ch[c])
    /\ plock' = [plock EXCEPT ![ch[c]] = Caller(c)]
    /\ cpc' = [cpc EXCEPT ![c] = "k_a_read"]
    /\ UNCHANGED <<processes, procVars, cid, ch, polls, monVars, rlock, mlock, todo, orderRest>>
    /\ ret' = NoRet

\* server.rs lines 627-633: the element is built, the guard of the handle dropped
LockStatusesRead(c) ==
    /\ cpc[c] = "k_a_read"
    /\ plock' = [plock EXCEPT ![ch[c]] = Free]
    /\ todo' = [todo EXCEPT ![c] = @ \ {cid[c]}]
    /\ cid' = [cid EXCEPT ![c] = ""]
    /\ ch' = [ch EXCEPT ![c] = NoProc]
    /\ cpc' = [cpc EXCEPT ![c] = "k_a_next"]
    /\ UNCHANGED <<processes, procVars, polls, monVars, rlock, mlock, orderRest>>
    /\ ret' = NoRet

\* server.rs line 646
LockSendEnter(c, id) ==
    /\ cpc[c] = "idle"
    /\ RegistryLockFree
    /\ rlock' = Caller(c)
    /\ cid' = [cid EXCEPT ![c] = id]
    /\ cpc' = [cpc EXCEPT ![c] = "k_c_get"]
    /\ UNCHANGED <<processes, procVars, ch, polls, monVars, plock, mlock, todo, orderRest>>
    /\ ret' = NoRet

\* server.rs lines 648-649, 663-666
LockSendGet(c) ==
    /\ cpc[c] = "k_c_get"
    /\ IF Get(processes, cid[c]) = NoProc
       THEN /\ rlock' = RegistryUnlock(Caller(c))
            /\ cpc' = [cpc EXCEPT ![c] = "idle"]
            /\ cid' = [cid EXCEPT ![c] = ""]
            /\ ret' = Returned(c, SendResult(cid[c], FALSE), <<>>)
            /\ UNCHANGED ch
       ELSE /\ cpc' = [cpc EXCEPT ![c] = "k_c_plock"]
            /\ ch' = [ch EXCEPT ![c] = Get(processes, cid[c])]
            /\ ret' = NoRet
            /\ UNCHANGED <<cid, rlock>>
    /\ UNCHANGED <<processes, procVars, polls, monVars, plock, mlock, todo, orderRest>>

\* server.rs line 650
LockSendProcEnter(c) ==
    /\ cpc[c] = "k_c_plock"
    /\ ProcLockFree(ch[c])
    /\ plock' = [plock EXCEPT ![ch[c]] = Caller(c)]
    /\ cpc' = [cpc EXCEPT ![c] = "k_c_send"]
    /\ UNCHANGED <<processes, procVars, cid, ch, polls, monVars, rlock, mlock, todo, orderRest>>
    /\ ret' = NoRet

\* server.rs lines 651-662, 668: tx.send on the unbounded channel returns at
\* once; both guards are dropped
LockSendSend(c) ==
    /\ cpc[c] = "k_c_send"
    /\ plock' = [plock EXCEPT ![ch[c]] = Free]
    /\ rlock' = RegistryUnlock(Caller(c))
    /\ cpc' = [cpc EXCEPT ![c] = "idle"]
    /\ cid' = [cid EXCEPT ![c] = ""]
    /\ ch' = [ch EXCEPT ![c] = NoProc]
    /\ ret' = Returned(c, SendResult(cid[c], ReceiverAlive(ch[c])), <<>>)
    /\ UNCHANGED <<processes, procVars, polls, monVars, mlock, todo, orderRest>>

\* metrics.rs line 61
LockMetricsEnter(c, id) ==
    /\ cpc[c] = "idle"
    /\ RegistryLockFree
    /\ rlock' = state_guard(Caller(c))
    /\ cid' = [cid EXCEPT ![c] = id]
    /\ cpc' = [cpc EXCEPT ![c] = "k_x_get"]
    /\ UNCHANGED <<processes, procVars, ch, polls, monVars, plock, mlock, todo, orderRest>>
    /\ ret' = NoRet

\* metrics.rs lines 63-64, 107-116
LockMetricsGet(c) ==
    /\ cpc[c] = "k_x_get"
    /\ IF Get(processes, cid[c]) = NoProc
       THEN /\ rlock' = RegistryUnlock(Caller(c))
            /\ cpc' = [cpc EXCEPT ![c] = "idle"]
            /\ cid' = [cid EXCEPT ![c] = ""]
            /\ ret' = Returned(c, ServerMetrics(cid[c], NoProc, "stopped"), <<>>)
            /\ UNCHANGED ch
       ELSE /\ cpc' = [cpc EXCEPT ![c] = "k_x_plock"]
            /\ ch' = [ch EXCEPT ![c] = Get(processes, cid[c])]
            /\ ret' = NoRet
            /\ UNCHANGED <<cid, rlock>>
    /\ UNCHANGED <<processes, procVars, polls, monVars, plock, mlock, todo, orderRest>>

\* metrics.rs line 65
LockMetricsProcEnter(c) ==
    /\ cpc[c] = "k_x_plock"
    /\ ProcLockFree(ch[c])
    /\ plock' = [plock EXCEPT ![ch[c]] = Caller(c)]
    /\ cpc' = [cpc EXCEPT ![c] = "k_x_mlock"]
    /\ UNCHANGED <<processes, procVars, cid, ch, polls, monVars, rlock, mlock, todo, orderRest>>
    /\ ret' = NoRet

\* metrics.rs lines 66-76: the pid and the uptime, then the metrics mutex
LockMetricsSysEnter(c) ==
    /\ cpc[c] = "k_x_mlock"
    /\ MetricsLockFree
    /\ mlock' = Caller(c)
    /\ cpc' = [cpc EXCEPT ![c] = "k_x_read"]
    /\ UNCHANGED <<processes, procVars, cid, ch, polls, monVars, rlock, plock, todo, orderRest>>
    /\ ret' = NoRet

\* metrics.rs lines 77-106, 117: refresh, the figures, the three guards dropped
LockMetricsRead(c) ==
    /\ cpc[c] = "k_x_read"
    /\ mlock' = Free
    /\ plock' = [plock EXCEPT ![ch[c]] = Free]
    /\ rlock' = RegistryUnlock(Caller(c))
    /\ cpc' = [cpc EXCEPT ![c] = "idle"]
    /\ cid' = [cid EXCEPT ![c] = ""]
    /\ ch' = [ch EXCEPT ![c] = NoProc]
    /\ ret' = Returned(c, ServerMetrics(cid[c], PidOf(ch[c]), "running"), <<>>)
    /\ UNCHANGED <<processes, procVars, polls, monVars, todo, orderRest>>

\* metrics.rs line 125
LockAllMetricsEnter(c) ==
    /\ cpc[c] = "idle"
    /\ RegistryLockFree
    /\ rlock' = state_guard(Caller(c))
    /\ cpc' = [cpc EXCEPT ![c] = "k_y_empty"]
    /\ UNCHANGED <<processes, procVars, cid, ch, polls, monVars, plock, mlock, todo, orderRest>>
    /\ ret' = NoRet

\* metrics.rs lines 127-129: is_empty returns the empty list, the guard dropped
LockAllMetricsEmpty(c) ==
    /\ cpc[c] = "k_y_empty"
    /\ IF Keys(processes) = {}
       THEN /\ rlock' = RegistryUnlock(Caller(c))
            /\ cpc' = [cpc EXCEPT ![c] = "idle"]
            /\ ret' = Returned(c, {}, <<>>)
       ELSE /\ cpc' = [cpc EXCEPT ![c] = "k_y_mlock"]
            /\ ret' = NoRet
            /\ UNCHANGED rlock
    /\ UNCHANGED <<processes, procVars, cid, ch, polls, monVars, plock, mlock, todo, orderRest>>

\* metrics.rs lines 131-136: the metrics mutex, refresh, the iteration begins
LockAllMetricsSysEnter(c) ==
    /\ cpc[c] = "k_y_mlock"
    /\ MetricsLockFree
    /\ mlock' = Caller(c)
    /\ todo' = [todo EXCEPT ![c] = Keys(processes)]
    /\ cpc' = [cpc EXCEPT ![c] = "k_y_next"]
    /\ UNCHANGED <<processes, procVars, cid, ch, polls, monVars, rlock, plock, orderRest>>
    /\ ret' = NoRet

\* metrics.rs lines 137, 171-172: the next entry, in the order of the
\* HashMap; after the last one the list is returned, both guards dropped
LockAllMetricsNext(c) ==
    /\ cpc[c] = "k_y_next"
    /\ IF todo[c] = {}
       THEN /\ mlock' = Free
            /\ rlock' = RegistryUnlock(Caller(c))
            /\ cpc' = [cpc EXCEPT ![c] = "idle"]
            /\ ret' = Returned(c, {ServerMetrics(i, PidOf(processes[i]), "running") :
                                      i \in Keys(processes)}, <<>>)
            /\ UNCHANGED <<cid, ch>>
       ELSE /\ \E id \in todo[c] :
                 /\ cid' = [cid EXCEPT ![c] = id]
                 /\ ch' = [ch EXCEPT ![c] = Get(processes, id)]
            /\ cpc' = [cpc EXCEPT ![c] = "k_y_plock"]
            /\ ret' = NoRet
            /\ UNCHANGED <<rlock, mlock>>
    /\ UNCHANGED <<processes, procVars, polls, monVars, plock, todo, orderRest>>

\* metrics.rs line 138
LockAllMetricsProcEnter(c) ==
    /\ cpc[c] = "k_y_plock"
    /\ ProcLockFree(ch[c])
    /\ plock' = [plock EXCEPT ![ch[c]] = Caller(c)]
    /\ cpc' = [cpc EXCEPT ![c] = "k_y_read"]
    /\ UNCHANGED <<processes, procVars, cid, ch, polls, monVars, rlock, mlock, todo, orderRest>>
    /\ ret' = NoRet

\* metrics.rs lines 139-170: the element is built, the guard of the handle dropped
LockAllMetricsRead(c) ==
    /\ cpc[c] = "k_y_read"
    /\ plock' = [plock EXCEPT ![ch[c]] = Free]
    /\ todo' = [todo EXCEPT ![c] = @ \ {cid[c]}]
    /\ cid' = [cid EXCEPT ![c] = ""]
    /\ ch' = [ch EXCEPT ![c] = NoProc]
    /\ cpc' = [cpc EXCEPT ![c] = "k_y_next"]
    /\ UNCHANGED <<processes, procVars, polls, monVars, rlock, mlock, orderRest>>
    /\ ret' = NoRet

\* metrics.rs line 179
LockSystemEnter(c) ==
    /\ cpc[c] = "idle"
    /\ MetricsLockFree
    /\ mlock' = Caller(c)
    /\ cpc' = [cpc EXCEPT ![c] = "k_z_read"]
    /\ UNCHANGED <<processes, procVars, cid, ch, polls, monVars, rlock, plock, todo, orderRest>>
    /\ ret' = NoRet

\* metrics.rs lines 181-197: the system-wide figures, the guard dropped
LockSystemRead(c) ==
    /\ cpc[c] = "k_z_read"
    /\ mlock' = Free
    /\ cpc' = [cpc EXCEPT ![c] = "idle"]
    /\ ret' = Returned(c, "SystemMetrics", <<>>)
    /\ UNCHANGED <<processes, procVars, cid, ch, polls, monVars, rlock, plock, todo, orderRest>>

\* Both callers invoke any command at any time, next to the exit monitors and
\* the OS processes: start_server for any id, which gives the two commands
\* that iterate a registry of two entries, the commands that take an id for
\* the one on which they compete.
OrderNext ==
    \/ \E c \in Callers, id \in Ids : LockStartEnter(c, id)
    \/ \E c \in Callers : LockStartCheck(c)
    \/ \E c \in Callers : LockStartSpawn(c)
    \/ \E c \in Callers : LockStartInsertEnter(c)
    \/ \E c \in Callers : LockStartInsert(c)
    \/ \E c \in Callers : LockStartThreads(c)
    \/ \E c \in Callers, id \in Shared : LockStopEnter(c, id)
    \/ \E c \in Callers : LockStopGet(c)
    \/ \E c \in Callers : LockStopPidEnter(c)
    \/ \E c \in Callers : LockStopPid(c)
    \/ \E c \in Callers : LockStopSignal(c)
    \/ \E c \in Callers : LockStopTimeout(c)
    \/ \E c \in Callers : LockStopTryEnter(c)
    \/ \E c \in Callers : LockStopTry(c)
    \/ \E c \in Callers : LockStopSleep(c)
    \/ \E c \in Callers : LockStopRemoveEnter(c)
    \/ \E c \in Callers : LockStopRemove(c)
    \/ \E c \in Callers : LockStopReturn(c)
    \/ \E c \in Callers, id \in Shared : LockStatusEnter(c, id)
    \/ \E c \in Callers : LockStatusGet(c)
    \/ \E c \in Callers : LockStatusProcEnter(c)
    \/ \E c \in Callers : LockStatusRead(c)
    \/ \E c \in Callers : LockStatusesEnter(c)
    \/ \E c \in Callers : LockStatusesNext(c)
    \/ \E c \in Callers : LockStatusesProcEnter(c)
    \/ \E c \in Callers : LockStatusesRead(c)
    \/ \E c \in Callers, id \in Shared : LockSendEnter(c, id)
    \/ \E c \in Callers : LockSendGet(c)
    \/ \E c \in Callers : LockSendProcEnter(c)
    \/ \E c \in Callers : LockSendSend(c)
    \/ \E c \in Callers, id \in Shared : LockMetricsEnter(c, id)
    \/ \E c \in Callers : LockMetricsGet(c)
    \/ \E c \in Callers : LockMetricsProcEnter(c)
    \/ \E c \in Callers : LockMetricsSysEnter(c)
    \/ \E c \in Callers : LockMetricsRead(c)
    \/ \E c \in Callers : LockAllMetricsEnter(c)
    \/ \E c \in Callers : LockAllMetricsEmpty(c)
    \/ \E c \in Callers : LockAllMetricsSysEnter(c)
    \/ \E c \in Callers : LockAllMetricsNext(c)
    \/ \E c \in Callers : LockAllMetricsProcEnter(c)
    \/ \E c \in Callers : LockAllMetricsRead(c)
    \/ \E c \in Callers : LockSystemEnter(c)
    \/ \E c \in Callers : LockSystemRead(c)
    \/ \E m \in Procs : LockMonitorWake(m)
    \/ \E m \in Procs : LockMonitorEnter(m)
    \/ \E m \in Procs : LockMonitorGet(m)
    \/ \E m \in Procs : LockMonitorProcEnter(m)
    \/ \E m \in Procs : LockMonitorTry(m)
    \/ \E m \in Procs : LockMonitorRemoveEnter(m)
    \/ \E m \in Procs : LockMonitorRemove(m)
    \/ \E p \in Procs : ProcExit(p)

OrderSpec == Init /\ [][OrderNext]_vars

\* ================================================================= claims
Spawned == 1..nprocs

Registered(p) == processes[procId[p]] = p

\* stop_server calls for p that have returned: each added one Stopped, and
\* every other Stopped for p came with a server-exit
StopsCompleted(p) == stoppedOf[p] - exitOf[p]

\* C1: for every process lifetime, Stopped is emitted exactly once by the exit
\* monitor and stop_server together: never a second time for the same process.
C1_StoppedOncePerLifetime ==
    \A p \in Spawned : stoppedOf[p] <= 1

\* C2: a registry entry is never overwritten by a second start: registration
\* is atomic with the already-running check.
C2_RegistrationAtomic ==
    [][\A id \in Ids :
          ContainsKey(processes, id) => processes'[id] \in {NoProc, processes[id]}]_vars

\* C3: a started process is in the registry if and only if neither a stop
\* for it (its removal step) nor a detected exit of it has completed.
C3_RegistryIffStarted ==
    \A p \in Spawned :
        Registered(p) <=>
            ~(stoppedOf[p] > 0 \/ \E c \in Callers : cpc[c] = "t_done" /\ ch[c] = p)

\* C4: a process started and left alone (no stop_server for its id since its
\* start, no other start_server racing with its start) gets at most one
\* server-exit and at most one Stopped, and once it has exited and no monitor
\* of its id is left it got exactly one of each and is out of the registry;
\* also when the id was stopped and started again just before.
C4_UnattendedExitOnce ==
    \A p \in Spawned :
        ~attended[p] =>
            /\ exitOf[p] <= 1
            /\ stoppedOf[p] <= 1
            /\ (/\ alive[p] = "exited"
                /\ \A c \in Callers : ch[c] # p
                /\ \A m \in Spawned : procId[m] = procId[p] => mpc[m] = "done")
               => (exitOf[p] = 1 /\ stoppedOf[p] = 1 /\ ~Registered(p))

\* C5: start_server for an id that is in the registry returns the
\* already-running failure, spawns nothing and leaves the registry as it was.
C5_SecondStartRejected ==
    [][\A c \in Callers, id \in Ids :
          (StartCheck(c, id) /\ ContainsKey(processes, id)) =>
              /\ ret'.val = StartResult(id, FALSE, NoProc, "Server is already running")
              /\ cpc'[c] = "idle"
              /\ nprocs' = nprocs
              /\ processes' = processes]_vars

C5_Witness ==
    /\ ret.val.op = "start" /\ ~ret.val.ok /\ ret.val.info = "Server is already running"
    /\ \E p \in Spawned :
         /\ processes[ret.val.id] = p
         /\ mpc[p] = "sleep"
         /\ alive[p] = "running"

\* C6: when stop_server returns success the status of the id is Stopped,
\* unless a start inserted the id again after this stop removed it.
C6_StoppedAfterStop ==
    [][\A c \in Callers :
          (StopDone(c) /\ ~startedSince[c]) =>
              /\ ret'.val = StopResult(cid[c], TRUE, "")
              /\ StatusIn(processes', cid[c]) = ServerStatusInfo(cid[c], "Stopped", NoProc, NoProc)]_vars

C6_Witness ==
    /\ ret.val.op = "stop" /\ ret.val.ok
    /\ ret.log = <<"Stopping", "TERM", "KILL", "Stopped">>
    /\ processes[ret.val.id] = NoProc
    /\ \E p \in Spawned : alive[p] = "running" /\ StopsCompleted(p) = 1

\* C7: stop_server on an id that is not in the registry fails with 'Server is
\* not running', emits no event, sends no signal and leaves the registry.
C7_StopNotRunning ==
    [][\A c \in Callers, id \in Ids :
          (StopLookup(c, id) /\ ~ContainsKey(processes, id)) =>
              /\ ret'.val = StopResult(id, FALSE, "Server is not running")
              /\ ret'.log = <<>>
              /\ cpc'[c] = "idle"
              /\ processes' = processes]_vars

C7_Witness ==
    /\ ret.val = StopResult(ret.val.id, FALSE, "Server is not running")
    /\ ret.val.op = "stop"
    /\ ret.log = <<>>
    /\ \E p \in Spawned : procId[p] = ret.val.id /\ alive[p] = "running" /\ ~Registered(p)

\* C10: get_server_status returns Stopped without pid and start time exactly
\* when the id has no entry, and Running with the entry's pid and start time
\* exactly when it has one; never Starting or Stopping.
C10_StatusFromRegistry ==
    ret.val.op = "status" =>
        /\ ret.val.info \in {"Running", "Stopped"}
        /\ ret.val.info = "Stopped" <=> processes[ret.val.id] = NoProc
        /\ ret.val.info = "Stopped" => (ret.val.pid = NoProc /\ ret.val.at = NoProc)
        /\ ret.val.info = "Running" =>
               /\ ret.val.pid = PidOf(processes[ret.val.id])
               /\ ret.val.at = StartedAtOf(processes[ret.val.id])

C10_Witness ==
    /\ ret.val.op = "status"
    /\ \/ /\ ret.val.info = "Running"
          /\ \E c \in Callers : cpc[c] = "t_wait" /\ cid[c] = ret.val.id
       \/ /\ ret.val.info = "Stopped"
          /\ \E c \in Callers : cpc[c] = "s_spawn" /\ cid[c] = ret.val.id

\* C11: start_server checks (a) id not registered, (b) the server JAR exists,
\* (c) Assets.zip exists, in that order, and reports the first that fails; a
\* failing check spawns nothing, creates no thread and leaves the registry.
C11_PreconditionsInOrder ==
    [][/\ \A c \in Callers, id \in Ids :
            (StartCheck(c, id) /\ ContainsKey(processes, id)) =>
                /\ ret'.val.info = "Server is already running"
                /\ <<processes, nprocs, alive, wpc, mpc>>' = <<processes, nprocs, alive, wpc, mpc>>
       /\ \A c \in Callers, jar \in BOOLEAN, assets \in BOOLEAN, spawnOk \in BOOLEAN :
            (StartSpawnWith(c, jar, assets, spawnOk) /\ ~(jar /\ assets)) =>
                /\ ret'.val.op = "start" /\ ~ret'.val.ok /\ ret'.by = c
                /\ ret'.val.info = (IF ~jar THEN "Server JAR not found" ELSE "Assets.zip not found")
                /\ cpc'[c] = "idle"
                /\ <<processes, nprocs, alive, wpc, mpc>>' = <<processes, nprocs, alive, wpc, mpc>>
      ]_vars

\* a start that failed on the JAR while the id was registered by a racing start
C11_Witness ==
    /\ ret.val.op = "start" /\ ~ret.val.ok /\ ret.val.info = "Server JAR not found"
    /\ ret.log = <<"Starting", "Stopped">>
    /\ \E p \in Spawned : Registered(p) /\ procId[p] = ret.val.id /\ mpc[p] = "sleep"

\* C12: when Command::spawn fails start_server returns failure with the spawn
\* error, the registry is unchanged and no thread is created.
C12_SpawnFailureNoMutation ==
    [][\A c \in Callers :
          StartSpawnWith(c, TRUE, TRUE, FALSE) =>
              /\ ret'.val = StartResult(cid[c], FALSE, NoProc, "Failed to start server")
              /\ ret'.by = c
              /\ cpc'[c] = "idle" /\ ch'[c] = NoProc
              /\ <<processes, nprocs, alive, wpc, mpc, queue>>' = <<processes, nprocs, alive, wpc, mpc, queue>>
      ]_vars

C12_Witness ==
    /\ ret.val.op = "start" /\ ~ret.val.ok /\ ret.val.info = "Failed to start server"
    /\ ret.log = <<"Starting", "Stopped">>
    /\ processes[ret.val.id] = NoProc
    /\ nprocs = 1

\* C13: every stop_server call that found its id returns success: its wait
\* loop ends at the latest when the timeout is reached, whatever the process
\* does and whoever else (monitor, another stop_server) polls the same handle.
C13_StopTerminates ==
    \A c \in Callers :
        (cpc[c] = "t_wait") ~> (ret.by = c /\ ret.val.op = "stop" /\ ret.val.ok)

\* a stop that returned by the timeout, the process still running, while
\* another stop_server is in the wait loop on the same handle
C13_Witness ==
    /\ ret.val.op = "stop" /\ ret.val.ok
    /\ ret.log = <<"Stopping", "TERM", "KILL", "Stopped">>
    /\ \E k \in Callers \ {ret.by}, p \in Spawned :
         /\ cpc[k] = "t_wait" /\ ch[k] = p /\ polls[k] = MaxPolls
         /\ StopsCompleted(p) = 1
         /\ alive[p] = "running"

\* C14: neither a failed delivery of the graceful signal nor an error of
\* try_wait in the wait loop aborts stop_server: the entry is removed, Stopped
\* is emitted and success is returned; after a failed delivery the loop goes
\* on to the timeout and the forced kill.
C14_ErrorEndsWait ==
    \A c \in Callers :
        StopWaitWith(c, "err") => (processes'[cid[c]] = NoProc /\ cpc'[c] = "t_done")

C14_FailedSignalGoesOn ==
    \A c \in Callers :
        (cpc[c] = "t_wait" /\ log[c] = <<"Stopping", "TERM", "TERM_failed">>) =>
            \/ StopPoll(c)
            \/ StopWaitWith(c, "exited") \/ StopWaitWith(c, "err")
            \/ StopWaitWith(c, "timeout") /\ log'[c] = Append(log[c], "KILL")
            \/ UNCHANGED <<cpc[c], log[c], polls[c]>>

C14_SuccessAfterWait ==
    \A c \in Callers :
        StopDone(c) =>
            /\ ret'.val = StopResult(cid[c], TRUE, "")
            /\ ret'.log = Append(log[c], "Stopped")
            /\ stoppedOf'[ch[c]] = stoppedOf[ch[c]] + 1

C14_StopSurvivesErrors ==
    /\ [][C14_ErrorEndsWait /\ C14_FailedSignalGoesOn /\ C14_SuccessAfterWait]_vars
    /\ \A c \in Callers :
         (cpc[c] = "t_wait") ~> (ret.by = c /\ ret.val.op = "stop" /\ ret.val.ok)

\* a stop whose signal was not delivered and whose process never exited
C14_Witness ==
    /\ ret.val = StopResult(ret.val.id, TRUE, "")
    /\ ret.val.op = "stop"
    /\ ret.log = <<"Stopping", "TERM", "TERM_failed", "KILL", "Stopped">>
    /\ processes[ret.val.id] = NoProc
    /\ \E p \in Spawned : alive[p] = "running" /\ stoppedOf[p] = 1

\* C15: stop_server sends the forced kill exactly when the process is still
\* alive at the timeout: never to a process that has already exited, always
\* to one that has not.
C15_KillIffAliveAtTimeout ==
    [][\A c \in Callers :
          /\ StopWaitWith(c, "timeout") => alive[ch[c]] = "running"
          /\ (StopWait(c) /\ StopTimeoutReached(polls[c]) /\ alive[ch[c]] = "running")
                => log'[c] = Append(log[c], "KILL")]_vars

\* what belongs to instance id: its registry entry, its processes with their
\* queues and threads, and the commands in progress for it
Footprint(id) ==
    <<processes[id],
      [q \in Procs |-> IF procId[q] = id
                       THEN <<alive[q], queue[q], accepted[q], written[q], wpc[q], mpc[q], mseen[q]>>
                       ELSE <<>>],
      [c \in Callers |-> IF cid[c] = id THEN <<cpc[c], ch[c], log[c], polls[c]>> ELSE <<>>]>>

\* a step of a command, a thread or a process of instance id
ActsOn(id) ==
    \/ \E c \in Callers :
         \/ StartCheck(c, id)
         \/ StopLookup(c, id)
         \/ \E command \in Cmds : SendServerCommand(c, id, command)
         \/ /\ cid[c] = id
            /\ StartSpawn(c) \/ StartThreads(c) \/ StopPoll(c) \/ StopWait(c) \/ StopDone(c)
    \/ \E p \in Procs :
         /\ procId[p] = id
         /\ \/ MonitorTick(p) \/ MonitorCleanup(p) \/ ProcExit(p)
            \/ WriterWrite(p) \/ WriterExit(p)

C17_SnapshotOfRegistry ==
    [][\A c \in Callers :
          StatusAllCall(c) =>
              /\ processes' = processes
              /\ ret'.by = c /\ ret'.val.op = "statuses"
              /\ \A e \in ret'.val.info : e.op = "status" /\ e.info = "Running"
              /\ \A id \in Ids :
                    LET es == {e \in ret'.val.info : e.id = id} IN
                    IF processes[id] = NoProc
                    THEN es = {}
                    ELSE /\ Cardinality(es) = 1
                         /\ \A e \in es : /\ e.pid = PidOf(processes[id])
                                           /\ e.at = StartedAtOf(processes[id])]_vars

\* a listing with one element taken while the listed instance is being
\* stopped and the other instance is being started
C17_Witness ==
    /\ ret.val.op = "statuses"
    /\ Cardinality(ret.val.info) = 1
    /\ \E k \in Callers \ {ret.by} :
         /\ cpc[k] \in {"t_wait", "s_spawn"}
         /\ processes[Home[k]] # NoProc <=> cpc[k] = "t_wait"
         /\ processes[Home[ret.by]] # NoProc <=> cpc[k] = "s_spawn"

\* the run of non-whitespace characters of s that starts at index i
RunAt(s, i) ==
    LET ends == {j \in i..Len(s) : j = Len(s) \/ IsWhitespace(s[j + 1])}
    IN SubSeq(s, i, CHOOSE j \in ends : \A k \in ends : j <= k)

\* the URLs of s: from an "https://" up to the next whitespace or the end
UrlsIn(s) ==
    {RunAt(s, i) : i \in {j \in 1..(Len(s) - Len(Https) + 1) :
                             SubSeq(s, j, j + Len(Https) - 1) = Https}}

\* the URLs of s that carry the user_code parameter
CodeUrlsIn(s) == {u \in UrlsIn(s) : Contains(u, UserCode)}

\* C18: for every line that, stripped of its ANSI codes, contains an https://
\* URL with a user_code= parameter, parse_auth_event returns an event with
\* that whole URL and with the text after user_code= as the code.
C18_UrlWithCodeYieldsEvent ==
    (parsed.done /\ CodeUrlsIn(strip_ansi_codes(line)) # {}) =>
        /\ parsed.res.some
        /\ parsed.res.val.auth_url \in CodeUrlsIn(strip_ansi_codes(line))
        /\ parsed.res.val.code =
              From(parsed.res.val.auth_url, Find(parsed.res.val.auth_url, UserCode) + Len(UserCode))

\* the whitespace-delimited token that follows the first "Enter code:" of s
TokenAfterLabel(s) ==
    LET i == Find(s, EnterCode)
        starts == {j \in (i + Len(EnterCode))..Len(s) : ~IsWhitespace(s[j])}
    IN IF i = 0 \/ starts = {} THEN None
       ELSE Some(RunAt(s, CHOOSE j \in starts : \A k \in starts : j <= k))

\* C19: a line with no URL carrying user_code= but with "Enter code:" and a
\* token yields that token as the code and the canonical URL ending in it; a
\* line with such a URL yields the URL's event, label or not; a line with
\* neither yields nothing.
C19_FallbackOnlyWithoutUrl ==
    parsed.done =>
        LET clean == strip_ansi_codes(line)
            token == TokenAfterLabel(clean)
        IN
        IF CodeUrlsIn(clean) # {}
        THEN token.some =>
                 /\ parsed.res.some
                 /\ parsed.res.val.auth_url \in CodeUrlsIn(clean)
        ELSE IF token.some
        THEN parsed.res = AuthEvent("a", VerifyUrl \o token.val, token.val)
        ELSE parsed.res = None

\* the name the line announces: in the line without its ANSI codes, the text
\* between "Auto-selected profile:" and the first "(", trimmed
AnnouncedName(text) ==
    LET clean == strip_ansi_codes(text)
        i == Find(clean, AutoSelected)
        after == IF i = 0 THEN <<>> ELSE From(clean, i + Len(AutoSelected))
        paren == Find(after, <<"(">>)
    IN IF i # 0 /\ paren # 0 THEN Some(Trim(SubSeq(after, 1, paren - 1))) ELSE None

SuccessEvents(events) ==
    {events[i] : i \in {j \in 1..Len(events) : events[j].name = "server-auth-success"}}

\* C20: within one stdout loop every server-auth-success carries the name
\* announced by the most recent "Auto-selected profile: <name> (<id>)" line
\* of that stream, ANSI codes stripped, or none if there was no such line;
\* the name is kept per loop, apart from every other process.
C20_ProfileNameOfStream ==
    [][\A p \in Procs, text \in LoopLines :
          StdoutLine(p, text) =>
              LET name == IF AnnouncedName(text).some THEN AnnouncedName(text) ELSE profile[p] IN
              /\ profile'[p] = name
              /\ \A q \in Procs \ {p} : profile'[q] = profile[q]
              /\ \A e \in SuccessEvents(out'.events) : e.payload.profile_name = name]_vars

AuthEventNames ==
    {"server-auth-needed", "server-auth-needs-persistence", "server-auth-required",
     "server-auth-success"}

\* the names of the authentication events among events, in order
RECURSIVE AuthNames(_)
AuthNames(events) ==
    IF events = <<>> THEN <<>>
    ELSE (IF Head(events).name \in AuthEventNames THEN <<Head(events).name>> ELSE <<>>)
         \o AuthNames(Tail(events))

\* C21: one stdout line makes the loop emit at most one of the four
\* authentication events: the first, in the order needs-auth,
\* needs-persistence, auth-challenge, auth-success, whose sentinel it holds.
C21_AtMostOneAuthEvent ==
    [][\A p \in Procs, text \in LoopLines :
          StdoutLine(p, text) =>
              AuthNames(out'.events) =
                  IF Contains(text, NoTokens) THEN <<"server-auth-needed">>
                  ELSE IF Contains(text, MemoryOnly) THEN <<"server-auth-needs-persistence">>
                  ELSE IF parse_auth_event(procId[p], text).some THEN <<"server-auth-required">>
                  ELSE IF Contains(text, AuthOk) THEN <<"server-auth-success">>
                  ELSE <<>>]_vars

\* C22: a stop_server call that found its id goes: lookup, Stopping, graceful
\* signal, polls, forced kill if the timeout is reached, removal of the
\* entry, Stopped, return of success. Stopped never comes before the removal
\* and Stopping never after Stopped.
C22_StepsOfStop ==
    \A c \in Callers :
        /\ (cpc'[c] = "t_wait" /\ cpc[c] # "t_wait") =>
               /\ cpc[c] = "idle" /\ ContainsKey(processes, cid'[c])
               /\ log'[c] = <<"Stopping", "TERM">>
               /\ polls'[c] = 0 /\ processes' = processes
        /\ (cpc[c] = "t_wait" /\ cpc'[c] = "t_wait") => log'[c] = log[c]
        /\ (cpc[c] = "t_wait" /\ cpc'[c] # "t_wait") =>
               /\ cpc'[c] = "t_done"
               /\ processes'[cid[c]] = NoProc
               /\ log'[c] \in {log[c], Append(log[c], "KILL")}
               /\ log'[c] # log[c] => polls[c] = MaxPolls
               /\ ret' = NoRet
        /\ (cpc[c] = "t_done" /\ cpc'[c] # "t_done") =>
               /\ cpc'[c] = "idle"
               /\ processes' = processes
               /\ ret' = Returned(c, StopResult(cid[c], TRUE, ""), Append(log[c], "Stopped"))

C22_StopOrder ==
    /\ [][C22_StepsOfStop]_vars
    /\ []((ret.val.op = "stop" /\ ret.val.ok) =>
             ret.log \in {<<"Stopping", "TERM", "Stopped">>,
                          <<"Stopping", "TERM", "KILL", "Stopped">>})

\* a stop that returned after the process had exited within the timeout
C22_Witness ==
    /\ ret.val.op = "stop" /\ ret.val.ok
    /\ ret.log = <<"Stopping", "TERM", "Stopped">>
    /\ processes[ret.val.id] = NoProc
    /\ \E p \in Spawned : alive[p] = "exited" /\ stoppedOf[p] = 1 /\ exitOf[p] = 0

\* the loops of handle p that have been created
LoopsOf(p) ==
    (IF wpc[p] # "none" THEN {"stdin"} ELSE {}) \cup (IF opc[p] # "none" THEN {"stdout"} ELSE {})
    \cup (IF epc[p] # "none" THEN {"stderr"} ELSE {}) \cup (IF mpc[p] # "none" THEN {"monitor"} ELSE {})

\* C23: a start_server call that succeeds emits Starting before it spawns,
\* has the entry in the registry when it emits Running, emits Running before
\* it creates any of the four loops, and has created both readers (and the
\* other two loops) when it returns success; so as long as the call has not
\* gone past Running, no output of its process has been relayed.
C23_StepsOfStart ==
    \A c \in Callers :
        /\ (cpc'[c] = "s_spawn" /\ cpc[c] # "s_spawn") =>
               /\ cpc[c] = "idle" /\ log'[c] = <<"Starting">>
               /\ nprocs' = nprocs /\ processes' = processes
        /\ (cpc[c] = "s_spawn" /\ cpc'[c] = "s_threads") =>
               /\ nprocs' = nprocs + 1 /\ ch'[c] = nprocs' /\ alive[ch'[c]] = "none"
               /\ processes'[cid[c]] = ch'[c]
               /\ log[c] = <<"Starting">> /\ log'[c] = <<"Starting", "Running">>
               /\ wpc'[ch'[c]] = "none" /\ opc'[ch'[c]] = "none"
               /\ epc'[ch'[c]] = "none" /\ mpc'[ch'[c]] = "none"
        /\ (cpc[c] = "s_threads" /\ cpc'[c] # "s_threads") =>
               /\ LoopsOf(ch[c]) = {}
               /\ opc'[ch[c]] = "run" /\ epc'[ch[c]] = "run"
               /\ wpc'[ch[c]] = "run" /\ mpc'[ch[c]] = "sleep"
               /\ ret' = Returned(c, StartResult(cid[c], TRUE, PidOf(ch[c]), ""),
                                  <<"Starting", "Running">>)

C23_StartOrder ==
    /\ [][C23_StepsOfStart]_vars
    /\ [](\A c \in Callers : cpc[c] = "s_spawn" => log[c] = <<"Starting">> /\ ch[c] = NoProc)
    /\ [](\A p \in Procs : (out.of = p \/ LoopsOf(p) # {}) =>
              /\ alive[p] # "none"
              /\ \A c \in Callers : cpc[c] \in {"s_spawn", "s_threads"} => ch[c] # p)

\* a start that returned success, and a line of its process relayed after it
C23_Witness ==
    /\ out.of # NoProc
    /\ opc[out.of] = "run" /\ epc[out.of] = "run"
    /\ out.events[1].name = "server-output"
    /\ \A c \in Callers : cpc[c] = "idle"

\* C24: a monitor whose tick finds no entry under its id ends there: the
\* registry is as it was and neither Stopped nor server-exit is emitted; a
\* monitor that cleans up has seen an entry.
C24_AbsentMonitorExits ==
    /\ [][\A m \in Procs :
             (mpc[m] = "sleep" /\ mpc'[m] # "sleep" /\ Get(processes, procId[m]) = NoProc) =>
                 /\ mpc'[m] = "done"
                 /\ processes' = processes
                 /\ stoppedOf' = stoppedOf /\ exitOf' = exitOf]_vars
    /\ [](\A m \in Procs : mpc[m] = "cleanup" => mseen[m] # NoProc)

\* a monitor that ended after stop_server had removed its entry
C24_Witness ==
    \E m \in Procs :
        /\ mpc[m] = "done" /\ stoppedOf[m] = 1
        /\ \A p \in Procs : exitOf[p] = 0
        /\ processes[procId[m]] = NoProc

\* C25: a try_wait that fails in the exit monitor ends that loop and nothing
\* else: a monitor that ends removes no entry and emits neither Stopped nor
\* server-exit unless try_wait told it that the process it checked has exited.
C25_WaitErrorEndsOnlyMonitor ==
    [][\A m \in Procs :
          (mpc[m] = "cleanup" /\ mpc'[m] = "done") =>
              \/ alive[mseen[m]] = "exited"
              \/ /\ processes' = processes
                 /\ stoppedOf' = stoppedOf /\ exitOf' = exitOf]_vars

\* C26: a reader loop that ends, at end of file or on a read error, ends
\* alone: the registry is as it was, neither Stopped nor server-exit is
\* emitted, no process is signalled, and the other reader, the stdin writer
\* and the exit monitor of the process are where they were.
C26_ReaderEndsAlone ==
    [][\A p \in Procs :
          LET outEnds == opc[p] = "run" /\ opc'[p] # "run"
              errEnds == epc[p] = "run" /\ epc'[p] # "run"
          IN (outEnds \/ errEnds) =>
                 /\ processes' = processes /\ alive' = alive
                 /\ stoppedOf' = stoppedOf /\ exitOf' = exitOf
                 /\ wpc' = wpc /\ mpc' = mpc /\ log' = log
                 /\ ~(outEnds /\ errEnds)
                 /\ \A q \in Procs \ {p} : opc'[q] = opc[q] /\ epc'[q] = epc[q]]_vars

\* a stdout reader ended by a read error while the process runs, registered,
\* with its three other loops going on
C26_Witness ==
    \E p \in Procs :
        /\ opc[p] = "failed" /\ epc[p] = "run" /\ wpc[p] = "run" /\ mpc[p] = "sleep"
        /\ alive[p] = "running" /\ processes[procId[p]] = p
        /\ stoppedOf[p] = 0

\* C27: a write or flush that fails in the stdin writer ends that loop and
\* nothing else: no signal is sent, the registry is as it was, neither
\* Stopped nor server-exit is emitted and the monitor and the readers are
\* where they were; the entry of a process whose writer failed is removed by
\* stop_server or by an exit monitor only.
C27_WriterEndsAlone ==
    /\ [][\A p \in Procs :
             (wpc[p] = "run" /\ wpc'[p] = "failed") =>
                 /\ processes' = processes /\ alive' = alive
                 /\ stoppedOf' = stoppedOf /\ exitOf' = exitOf
                 /\ mpc' = mpc /\ opc' = opc /\ epc' = epc /\ log' = log]_vars
    /\ [][\A p \in Procs :
             (wpc[p] = "failed" /\ processes[procId[p]] = p /\ processes'[procId[p]] # p) =>
                 \/ \E c \in Callers : cpc[c] = "t_wait" /\ cpc'[c] = "t_done"
                 \/ \E m \in Procs : mpc[m] = "cleanup" /\ mpc'[m] = "done"]_vars

\* a writer ended by a failed write while the process runs, registered and
\* monitored
C27_Witness ==
    \E p \in Procs :
        /\ wpc[p] = "failed" /\ written[p] = <<>> /\ accepted[p] # <<>>
        /\ alive[p] = "running" /\ processes[procId[p]] = p
        /\ mpc[p] = "sleep" /\ stoppedOf[p] = 0
        /\ \A c \in Callers : cpc[c] = "idle"

\* the positions from which a command or a monitor goes into an operation
\* that can block: the spawn, the creation of the threads, the delivery of a
\* signal, a sleep
CallerBlocks(c) == cpc[c] \in {"k_s_spawn", "k_s_threads", "k_t_signal", "k_t_loop", "k_t_sleep"}

MonitorBlocks(m) == mpc[m] = "k_m_sleep"

\* the positions from which the registry is read or written
CallerInRegistry(c) == cpc[c] \in {"k_s_check", "k_s_insert", "k_t_get", "k_t_remove", "k_g_get"}

MonitorInRegistry(m) == mpc[m] \in {"k_m_get", "k_m_remove"}

\* C28: no thread holds the registry lock when it spawns the process,
\* creates the threads, delivers a signal or sleeps; a thread that reads or
\* writes the registry holds the lock, and the registry changes only in a
\* step of the thread that holds it.
C28_LockNotHeldAcrossBlocking ==
    /\ [](\A c \in Callers : CallerBlocks(c) => rlock # Caller(c))
    /\ [](\A m \in Procs : MonitorBlocks(m) => rlock # Monitor(m))
    /\ [](\A c \in Callers : CallerInRegistry(c) => rlock = Caller(c))
    /\ [](\A m \in Procs : MonitorInRegistry(m) => rlock = Monitor(m))
    /\ [][processes' # processes =>
            \/ \E c \in Callers : rlock = Caller(c) /\ CallerInRegistry(c) /\ cpc'[c] # cpc[c]
            \/ \E m \in Procs : rlock = Monitor(m) /\ MonitorInRegistry(m) /\ mpc'[m] # mpc[m]]_vars

\* one command is in its wait loop and another spawns a process while an
\* exit monitor holds the registry lock
C28_Witness ==
    \E c \in Callers, k \in Callers, m \in Procs :
        /\ cpc[c] = "k_t_sleep" /\ cpc[k] = "k_s_spawn"
        /\ rlock = Monitor(m) /\ mpc[m] = "k_m_try"

\* the threads that are in try_wait on handle p
InTryWait(p) ==
    {Caller(c) : c \in {k \in Callers : cpc[k] = "k_t_try" /\ ch[k] = p}}
    \cup {Monitor(m) : m \in {n \in Procs : mpc[n] = "k_m_try" /\ mseen[n] = p}}

\* C29: at most one thread at a time is in try_wait on a given handle, and it
\* is the thread that holds the lock of the handle.
C29_TryWaitExclusive ==
    \A p \in Procs : InTryWait(p) \subseteq {plock[p]} /\ Cardinality(InTryWait(p)) <= 1

\* stop_server is in try_wait on a handle for which an exit monitor waits
C29_Witness ==
    \E c \in Callers, m \in Procs :
        /\ cpc[c] = "k_t_try" /\ mpc[m] = "k_m_plock" /\ mseen[m] = ch[c]
        /\ alive[ch[c]] = "running"

\* the four loops of handle p have been created and have all ended
LoopsEnded(p) ==
    /\ wpc[p] \in {"done", "failed"}
    /\ opc[p] \in {"eof", "failed"} /\ epc[p] \in {"eof", "failed"}
    /\ mpc[p] = "done"

\* C30: once a process has exited, by itself or in the course of a
\* stop_server, its four loops all end.
C30_LoopsTerminate ==
    \A p \in Procs : (alive[p] = "exited") ~> LoopsEnded(p)

\* the loop of the stdin writer of handle p has ended
WriterEnded(p) == wpc[p] \in {"broke", "failed", "done"}

\* C31: once the loop of the stdin writer of a process has ended, no
\* send_server_command for its instance is accepted: the call returns false
\* and nothing is queued.
C31_NoSendAfterWriterEnded ==
    [][\A c \in Callers, id \in Ids, command \in Cmds :
          (SendServerCommand(c, id, command) /\ processes[id] # NoProc
              /\ WriterEnded(processes[id])) =>
                 /\ ret'.val = SendResult(id, FALSE)
                 /\ accepted' = accepted /\ queue' = queue]_vars

\* the token after the label "Mode:" in a line, ANSI codes apart
ModeToken(text) ==
    LET clean == strip_ansi_codes(text)
        i == Find(clean, ModeLabel)
        token == FirstToken(From(clean, i + Len(ModeLabel)))
    IN IF i = 0 THEN DefaultMode ELSE IF token.some THEN token.val ELSE <<>>

\* C32: the mode of a server-auth-success event is the one token that
\* follows "Mode:" in the line, and OAUTH_DEVICE when the line has no such
\* label; what follows the token, words or ANSI codes, is not in the mode.
C32_ModeIsOneToken ==
    [][\A p \in Procs, text \in LoopLines :
          StdoutLine(p, text) =>
              \A e \in SuccessEvents(out'.events) : e.payload.auth_mode = ModeToken(text)]_vars

\* s without its runs ESC [ ... m, each taken up to its first m; an ESC that
\* begins no such run goes alone
RECURSIVE StripRuns(_)
StripRuns(s) ==
    LET e == Find(s, <<ESC>>) IN
    IF e = 0 THEN s
    ELSE LET rest == From(s, e + 1)
             k == Find(rest, <<"m">>)
         IN SubSeq(s, 1, e - 1)
            \o (IF Len(rest) > 0 /\ rest[1] = "[" /\ k # 0
                THEN StripRuns(From(rest, k + 1))
                ELSE StripRuns(rest))

\* C33: what strip_ansi_codes returns for a line has no ESC, is the line
\* without its runs ESC [ ... m, every other character kept in order (also
\* after an ESC that no [ or no m follows), and is left as it is by a second
\* application.
C33_StripsExactlyTheRuns ==
    parsed.done =>
        LET once == strip_ansi_codes(line) IN
        /\ \A i \in 1..Len(once) : once[i] # ESC
        /\ once = StripRuns(line)
        /\ strip_ansi_codes(once) = once

\* what holds of it: no ESC is left and a second application changes nothing
StripNoEscIdempotent ==
    parsed.done =>
        LET once == strip_ansi_codes(line) IN
        /\ \A i \in 1..Len(once) : once[i] # ESC
        /\ strip_ansi_codes(once) = once

\* C34: the cleanup of an exit monitor removes no entry of a process other
\* than its own that is still running: not that of the process started under
\* its id after stop_server had removed its own.
C34_MonitorRemovesOwnEntry ==
    [][\A m \in Procs :
          (mpc[m] = "cleanup" /\ mpc'[m] = "done") =>
              \A id \in Ids :
                  (processes[id] # NoProc /\ processes'[id] = NoProc) =>
                      \/ processes[id] = m
                      \/ alive[processes[id]] = "exited"]_vars

\* C35: the removal that ends stop_server's wait takes out of the registry
\* nothing but the handle the call looked up at its first step: when the exit
\* monitor has removed that one during the wait, not the entry of a process
\* started under the id since.
C35_StopRemovesLookedUpHandle ==
    [][\A c \in Callers :
          (cpc[c] = "t_wait" /\ cpc'[c] = "t_done" /\ exitOf[ch[c]] > 0) =>
              \A id \in Ids :
                  (processes[id] # NoProc /\ processes'[id] = NoProc) => processes[id] = ch[c]]_vars

\* ------------------------------------------------- claims on the channel
EndsWithNewline(s) == Len(s) > 0 /\ s[Len(s)] = NL

EndsWithOneNewline(s) ==
    /\ EndsWithNewline(s)
    /\ Len(s) > 1 => s[Len(s) - 1] # NL

\* the text of s without the newlines that end it
RECURSIVE Body(_)
Body(s) == IF EndsWithNewline(s) THEN Body(SubSeq(s, 1, Len(s) - 1)) ELSE s

\* C8 as stated: the chunks written are the accepted commands in enqueue
\* order, each terminated by exactly one newline.
C8_ExactlyOneNewline ==
    \A p \in Procs : \A i \in 1..Len(written[p]) :
        /\ i <= Len(accepted[p])
        /\ Body(written[p][i]) = Body(accepted[p][i])
        /\ EndsWithOneNewline(written[p][i])

C8_InOrderNewlineAdded ==
    \A p \in Procs : \A i \in 1..Len(written[p]) :
        /\ i <= Len(accepted[p])
        /\ EndsWithNewline(accepted[p][i]) => written[p][i] = accepted[p][i]
        /\ ~EndsWithNewline(accepted[p][i]) => written[p][i] = accepted[p][i] \o <<NL>>

C8_EventuallyWritten ==
    \A p \in Procs : \A n \in 1..MaxCmds :
        (Len(accepted[p]) >= n) ~> (Len(written[p]) >= n \/ wpc[p] = "failed")

\* C8 amended: while stdin stays writable every accepted command is
\* eventually written, in enqueue order, ending in a newline: one is added
\* when the command does not end with one, otherwise the text is unchanged.
C8_CommandsWrittenInOrder == []C8_InOrderNewlineAdded /\ C8_EventuallyWritten

C8_Witness ==
    \E p \in Spawned :
        /\ Len(written[p]) = 2
        /\ Len(accepted[p]) = 2
        /\ accepted[p][1] # accepted[p][2]
        /\ ~EndsWithNewline(accepted[p][1])
        /\ wpc[p] = "run"
        /\ alive[p] = "running"

\* C9: send_server_command returns false and queues nothing when the id has
\* no entry; otherwise it returns whether the text was queued, and a queued
\* text counts as success whatever happens to the write later.
C9_SendReturnsEnqueueOutcome ==
    [][\A c \in Callers, id \in Ids, command \in Cmds :
          SendServerCommand(c, id, command) =>
              LET p == processes[id] IN
              /\ written' = written
              /\ IF p = NoProc
                 THEN ret'.val = SendResult(id, FALSE) /\ queue' = queue
                 ELSE /\ ret'.val = SendResult(id, ReceiverAlive(p))
                      /\ IF ReceiverAlive(p)
                         THEN queue' = [queue EXCEPT ![p] = Append(@, command)]
                         ELSE queue' = queue]_vars

C9_Witness ==
    \E p \in Spawned :
        /\ wpc[p] = "failed"
        /\ Len(accepted[p]) = 2
        /\ Len(written[p]) = 0

\* the exit monitors that, at their next tick, poll the handle p
Watchers(p) == {m \in Spawned : mpc[m] = "sleep" /\ Get(processes, procId[m]) = p}

\* C36: at most one exit monitor watches a live process: a process started
\* with no other start_server racing and not stopped since is polled by its
\* own monitor only, never by the monitor of an earlier process of its id.
C36_OneMonitorPerProcess ==
    \A p \in Spawned :
        (~attended[p] /\ alive[p] = "running") => Watchers(p) \subseteq {p}

\* the threads that take locks
Threads == {Caller(c) : c \in Callers} \cup {Monitor(m) : m \in Procs}

\* the holder of the lock for which thread t is waiting, Free when it waits
\* for none or the lock is free
Wanted(t) ==
    IF t.kind = "caller"
    THEN IF cpc[t.c] \in {"k_s_lock", "k_t_lock"} THEN rlock
         ELSE IF \/ cpc[t.c] \in {"k_t_pid", "k_g_plock", "k_a_plock", "k_c_plock",
                                  "k_x_plock", "k_y_plock"}
                 \/ cpc[t.c] = "k_t_loop" /\ ~StopTimeoutReached(polls[t.c])
              THEN plock[ch[t.c]]
         ELSE IF cpc[t.c] \in {"k_x_mlock", "k_y_mlock"} THEN mlock
         ELSE Free
    ELSE IF mpc[t.m] \in {"k_m_lock", "k_m_clean"} THEN rlock
         ELSE IF mpc[t.m] = "k_m_plock" THEN plock[mseen[t.m]]
         ELSE Free

\* the locks thread t holds
Held(t) ==
    (IF rlock = t THEN {<<"registry", NoProc>>} ELSE {})
        \cup (IF mlock = t THEN {<<"metrics", NoProc>>} ELSE {})
        \cup {<<"process", p>> : p \in {q \in Procs : plock[q] = t}}

\* C37: no set of threads is such that each waits for a lock that a thread of
\* the set holds; a thread that waits for a lock while it holds one holds
\* the registry lock and waits for a process lock or the metrics lock, and
\* stop_server holds a process lock without the registry lock.
C37_NoDeadlock ==
    /\ \A S \in SUBSET Threads : S # {} => \E t \in S : Wanted(t) \notin S
    /\ \A t \in Threads :
          (Wanted(t) # Free /\ Held(t) # {}) => (rlock = t /\ Wanted(t) # rlock)
    /\ \A c \in Callers :
          cpc[c] \in {"k_t_pidread", "k_t_try"} => Held(Caller(c)) = {<<"process", ch[c]>>}

\* get_all_server_metrics holds the registry and the metrics lock and waits
\* for the lock of a handle on which stop_server is in try_wait
C37_Witness ==
    \E c, d \in Callers :
        /\ cpc[c] = "k_y_plock" /\ cpc[d] = "k_t_try" /\ ch[c] = ch[d]
        /\ Held(Caller(c)) = {<<"registry", NoProc>>, <<"metrics", NoProc>>}

\* get_server_metrics holds the registry and a process lock and waits for
\* the metrics lock, which get_system_metrics holds
C37_WitnessMetrics ==
    \E c, d \in Callers :
        /\ cpc[c] = "k_x_mlock" /\ cpc[d] = "k_z_read"
        /\ Wanted(Caller(c)) = Caller(d)

\* C38: a start_server call that has emitted Starting emits, before it
\* returns, exactly one more status: Running when the files are there and the
\* spawn succeeded, with the entry inserted, or Stopped otherwise, with the
\* registry as it was; a failed start emits no Running and ends on Stopped.
C38_StartingThenOneOutcome ==
    /\ [][\A c \in Callers, jar \in BOOLEAN, assets \in BOOLEAN, spawnOk \in BOOLEAN :
             StartSpawnWith(c, jar, assets, spawnOk) =>
                 IF jar /\ assets /\ spawnOk
                 THEN /\ log'[c] = <<"Starting", "Running">>
                      /\ processes'[cid[c]] = ch'[c] /\ ch'[c] # NoProc
                      /\ ret' = NoRet
                 ELSE /\ ret'.by = c /\ ~ret'.val.ok
                      /\ ret'.log = <<"Starting", "Stopped">>
                      /\ processes' = processes
                      /\ cpc'[c] = "idle"]_vars
    /\ [][\A c \in Callers :
             StartThreads(c) => (ret'.by = c /\ ret'.val.ok
                                    /\ ret'.log = <<"Starting", "Running">>)]_vars
    /\ [](\A c \in Callers :
             /\ cpc[c] = "s_spawn" => log[c] = <<"Starting">>
             /\ cpc[c] = "s_threads" => log[c] = <<"Starting", "Running">>)

\* a start that failed on a spawn error while the other caller's start of the
\* same id is between Starting and its outcome
C38_Witness ==
    /\ ret.val.op = "start" /\ ~ret.val.ok /\ ret.val.info = "Failed to start server"
    /\ ret.log = <<"Starting", "Stopped">>
    /\ \E c \in Callers : cpc[c] = "s_spawn" /\ cid[c] = ret.val.id

\* C39: a start_server call rejected because its id is in the registry emits
\* no event at all: no Starting, no Stopped, no Running; the registry and the
\* events of the process that runs under the id are as they were.
C39_RejectedStartIsSilent ==
    [][\A c \in Callers, id \in Ids :
          (StartCheck(c, id) /\ ContainsKey(processes, id)) =>
              /\ ret'.by = c /\ ret'.log = <<>>
              /\ log' = log
              /\ processes' = processes
              /\ stoppedOf' = stoppedOf /\ exitOf' = exitOf]_vars

\* a rejected start has returned with no event while the process of its id
\* runs, registered, with no Stopped and no server-exit emitted for it
C39_Witness ==
    /\ ret.val.op = "start" /\ ret.val.info = "Server is already running"
    /\ ret.log = <<>>
    /\ \E p \in Spawned :
         /\ Registered(p) /\ procId[p] = ret.val.id
         /\ alive[p] = "running"
         /\ stoppedOf[p] = 0 /\ exitOf[p] = 0

====
